---- MODULE Spec2Model ----
(***************************************************************************)
(* Verification model of the image quality analysis engine of              *)
(* image-inspector-go.                                                     *)
(*                                                                         *)
(* Part 1: the WorkerPool (analyzer package, the file whose Close drains): *)
(*         clients call Start / Submit / Wait / Close / Resize, workers    *)
(*         drain the bounded job queue, GetStats reads the counters.       *)
(* Part 2: coreAnalyzer.AnalyzeWithOptions with its pooled scratch result  *)
(*         and the QualityValidator rule engine.                           *)
(***************************************************************************)
EXTENDS Integers, Sequences, FiniteSets, TLC

\* ------------------------------------------------------------------ bounds
\* largest worker count passed to NewWorkerPool / Resize
MaxWorkers == 2
\* host parallelism, runtime.NumCPU()
NumCPU == 2
\* Submit calls made during a run
MaxJobs == 2
\* jobs already accepted and still queued when a run starts
MaxBacklog == 3
\* concurrent callers of the pool, and of the analyzer
NumClients == 2
\* executions of submitted functions that end in a panic
MaxPanics == 1
\* AnalyzeWithOptions calls made during a run
MaxAnalyses == 2

\* ------------------------------------------------------- program constants
\* make(chan func(), workers*4)
QueueFactor == 4

Clients == 1..NumClients
\* job ids: the jobs queued when a run starts (a backlog, or a full queue
\* of a one-worker pool) and the jobs submitted during it
Jobs == 1..((IF MaxBacklog > QueueFactor THEN MaxBacklog ELSE QueueFactor)
              + MaxJobs)
WorkerIds == 1..(IF MaxWorkers > NumCPU THEN MaxWorkers ELSE NumCPU)
None == 0

\* the goroutine of worker w, as a holder of owp.mu and a caller of Submit
Goroutine(w) == NumClients + w

Submitters == Clients \cup {Goroutine(w) : w \in WorkerIds}

VARIABLES
    \* ---- WorkerPool fields
    workers,        \* owp.workers
    jobQueue,       \* buffered content of owp.jobQueue (job ids, FIFO)
    queueCap,       \* cap(owp.jobQueue), fixed by make()
    chanClosed,     \* TRUE once close(owp.jobQueue) has run
    wg,             \* counter of owp.wg
    wgWaiters,      \* clients parked inside owp.wg.Wait()
    once,           \* TRUE once owp.once has fired
    mu,             \* owp.mu: readers, writer, goroutines parked in Lock()
                    \* and in RLock()
    closed,         \* owp.closed
    activeWorkers,  \* owp.activeWorkers
    totalJobs,      \* owp.totalJobs
    completedJobs,  \* owp.completedJobs
    \* ---- goroutines
    wpc,            \* position of each worker goroutine
    wjob,           \* job a worker holds
    pc,             \* position of each client goroutine
    cjob,           \* job id / argument of the client's current call
    \* ---- jobs and observations
    job,            \* per job: lifecycle state, Submit result, runs
    nextJob,        \* next unused job id
    submits,        \* Submit calls made during the run
    spawned,        \* number of worker goroutines launched so far
    closeCount,     \* number of executions of close(owp.jobQueue)
    fault,          \* runtime fault that escaped ("none" if there is none)
    recovered,      \* panics of submitted functions recovered by workers
    quiet,          \* clients whose Wait has seen no Submit in flight since
                    \* it was called
    \* ---- coreAnalyzer
    resultPool,     \* ca.resultPool: scratch results currently in the pool
    results,        \* every *AnalysisResult made by resultPool.New
    grayPool,       \* ca.grayPool: gray buffers currently in the pool
    grays,          \* every *image.Gray made by grayPool.New
    ocrHeap,        \* the models.OCRResult objects allocated so far
    floatHeap,      \* the float64 objects DetectSkew returned pointers to
    strHeap,        \* the backing arrays of the []string slices allocated
    acall,          \* per caller: position in AnalyzeWithOptions and locals
    ret,            \* per caller: the AnalysisResult last returned to it
    snap,           \* per caller: what that result held when it was returned
    analyses,       \* AnalyzeWithOptions calls started
    \* ---- QualityValidator
    qualityValidator, \* ca.qualityValidator: the validator and its thresholds
    qcall,          \* the validation in progress: function, metrics, issues
    \* ---- MetricsCalculator
    mcall,          \* the measurement in progress: function, picture, strip
                    \* workers, channel, result
    \* ---- AnalysisOptions
    optcall,        \* the AnalysisOptions values a caller holds, in the order
                    \* they were made, and the last builder call
    \* ---- WorkerPool memory pools
    memPools        \* owp.bufferPool, owp.slicePool, owp.matrixPool: the
                    \* backing arrays made so far, the slices in each pool
                    \* and the slice each caller holds

poolVars == <<workers, jobQueue, queueCap, chanClosed, wg, wgWaiters, once, mu,
              closed, activeWorkers, totalJobs, completedJobs, wpc, wjob, pc,
              cjob, job, nextJob, submits, spawned, closeCount, fault, quiet,
              recovered>>

callVars == <<resultPool, results, grayPool, grays, ocrHeap, floatHeap,
              strHeap, acall, ret, snap, analyses>>

\* the variables no analysis and no measurement writes
restVars == <<qualityValidator, optcall, memPools>>

anVars == <<callVars, restVars, qcall, mcall>>

vars == <<workers, jobQueue, queueCap, chanClosed, wg, wgWaiters, once, mu,
          closed, activeWorkers, totalJobs, completedJobs, wpc, wjob, pc,
          cjob, job, nextJob, submits, spawned, closeCount, fault, quiet,
          recovered,
          resultPool, results, grayPool, grays, ocrHeap, floatHeap, strHeap,
          acall, ret, snap, analyses, qualityValidator, qcall, mcall, optcall,
          memPools>>

\* ---------------------------------------------------------------- helpers
AtRest(c) == pc[c] \in {"idle", "closed"}

\* c is back from a Wait during which no Submit was in flight, and has made
\* no call since
BackFromWait(c) == pc[c] = "idle" /\ c \in quiet

InSubmit(c) == pc[c] \in {"submit_select", "submit_dec", "submit_add"}

Accepted == {j \in Jobs : job[j].ret = "true"}

Rejected == {j \in Jobs : job[j].ret = "false"}

Finished(j) == job[j].st = "finished"

\* sync.RWMutex: RLock succeeds when no writer holds the lock and no Lock()
\* call is parked (a parked writer blocks new readers).
CanRLock == mu.writer = None /\ mu.pending = {}

\* sync.RWMutex: a parked Lock() succeeds when all readers have left.
CanLock(c) == c \in mu.pending /\ mu.writer = None /\ mu.readers = {}

RUnlock(c) == [mu EXCEPT !.readers = @ \ {c}]

\* owp.wg.Add(1) in Submit: the counter after the job is registered
WgAddSkipped == wg

WgAdd == wg + 1

\* defer owp.mu.RUnlock(): the submitter keeps the read lock until it returns
ReadLockDropped(c) == mu

ReadLockHeld(c) == [mu EXCEPT !.readers = @ \cup {c}]

\* the buffered channel accepts a send while it holds fewer than cap elements
QueueUnbounded == TRUE

QueueHasRoom == Len(jobQueue) < queueCap

\* if owp.closed { owp.mu.Unlock(); return } at the top of Close
AlreadyClosedIgnored == FALSE

AlreadyClosed == closed

\* atomic.AddInt64(&owp.totalJobs, -1) after a timed-out submission
TotalJobsKept == totalJobs

TotalJobsTakenBack == totalJobs - 1

\* a client that starts another call is no longer 'just back from Wait'
Leave(c) == quiet' = quiet \ {c}

\* NewWorkerPool(workers): workers <= 0 selects runtime.NumCPU()
NewWorkerPool(n) ==
    LET w == IF n <= 0 THEN NumCPU ELSE n IN
    /\ workers = w
    /\ queueCap = w * QueueFactor
    /\ chanClosed = FALSE
    /\ mu = [readers |-> {}, writer |-> None, pending |-> {}, parked |-> {}]
    /\ closed = FALSE
    /\ activeWorkers = 0
    /\ completedJobs = 0

\* The pool built by NewWorkerPool(n), started or not, after b Submit calls
\* that returned true and before any worker has been scheduled: b jobs
\* queued, registered with wg and counted.
PoolAfter(n, b, started) ==
        /\ NewWorkerPool(n)
        /\ jobQueue = [i \in 1..b |-> i]
        /\ wg = b
        /\ totalJobs = b
        /\ once = started
        /\ spawned = IF started THEN workers ELSE 0
        /\ wpc = [w \in WorkerIds |->
                    IF started /\ w <= workers THEN "idle" ELSE "unborn"]
        /\ job = [j \in Jobs |->
                    IF j <= b
                    THEN [st |-> "queued", ret |-> "true",
                          runs |-> 0, late |-> FALSE]
                    ELSE [st |-> "none", ret |-> "none",
                          runs |-> 0, late |-> FALSE]]
        /\ nextJob = b + 1
        /\ submits = 0
        /\ wgWaiters = {}
        /\ wjob = [w \in WorkerIds |-> None]
        /\ pc = [c \in Clients |-> "idle"]
        /\ cjob = [c \in Submitters |-> None]
        /\ closeCount = 0
        /\ fault = "none"
        /\ quiet = {}
        /\ recovered = 0

\* A run starts either from the freshly built pool (b = 0) or from a pool
\* whose queue already holds a backlog that a few more Submit calls fill.
InitPool ==
    \E n \in 0..MaxWorkers : \E b \in {0, MaxBacklog} :
        /\ PoolAfter(n, b, b > 0)
        /\ b <= queueCap
        /\ b > 0 => queueCap < b + MaxJobs

\* ------------------------------------------------------------------ Start
\* Start without the sync.Once: every call launches owp.workers goroutines
StartBodyEveryCall ==
    /\ once' = TRUE
    /\ wpc' = [w \in WorkerIds |-> IF w <= workers /\ wpc[w] = "unborn"
                                    THEN "idle" ELSE wpc[w]]
    /\ spawned' = spawned + workers

\* owp.once.Do(func() { for i := 0; i < owp.workers; i++ { go owp.worker(i) } })
StartBody ==
    IF once
    THEN UNCHANGED <<once, wpc, spawned>>
    ELSE /\ once' = TRUE
         /\ wpc' = [w \in WorkerIds |-> IF w <= workers THEN "idle" ELSE wpc[w]]
         /\ spawned' = spawned + workers

Start(c) ==
    /\ UNCHANGED <<anVars, recovered>>
    /\ AtRest(c)
    /\ StartBody
    /\ pc' = [pc EXCEPT ![c] = "idle"]
    /\ Leave(c)
    /\ UNCHANGED <<workers, jobQueue, queueCap, chanClosed, wg, wgWaiters, mu,
                   closed, activeWorkers, totalJobs, completedJobs, wjob, cjob,
                   job, nextJob, submits, closeCount, fault>>

\* ----------------------------------------------------------------- worker
\* sync.WaitGroup.Done: the counter drops; reaching zero releases every
\* goroutine parked in Wait; dropping below zero is a runtime panic
WgDone ==
    /\ wg' = wg - 1
    /\ wgWaiters' = IF wg - 1 = 0 THEN {} ELSE wgWaiters
    /\ fault' = IF wg - 1 < 0 THEN "negative WaitGroup counter" ELSE fault

\* a receive that leaves the job in the buffer of the channel
ReceiveLeaves == jobQueue

\* for job := range owp.jobQueue: the receive takes the job out of the buffer
ReceiveTakes == Tail(jobQueue)

\* for job := range owp.jobQueue { ... owp.incrementActiveWorkers(); job()
WorkerTake(w) ==
    /\ UNCHANGED <<anVars, recovered>>
    /\ wpc[w] = "idle"
    /\ jobQueue # <<>>
    /\ wjob' = [wjob EXCEPT ![w] = Head(jobQueue)]
    /\ jobQueue' = ReceiveTakes
    /\ activeWorkers' = activeWorkers + 1
    /\ job' = [job EXCEPT ![Head(jobQueue)].st = "running",
                          ![Head(jobQueue)].runs = @ + 1]
    /\ wpc' = [wpc EXCEPT ![w] = "running"]
    /\ UNCHANGED <<workers, queueCap, chanClosed, wg, wgWaiters, once, mu,
                   closed, totalJobs, completedJobs, pc, cjob, nextJob,
                   submits, spawned, closeCount, fault, quiet>>

\* the range loop ends when the queue is closed and drained
WorkerExit(w) ==
    /\ UNCHANGED <<anVars, recovered>>
    /\ wpc[w] = "idle"
    /\ jobQueue = <<>>
    /\ chanClosed
    /\ wpc' = [wpc EXCEPT ![w] = "exited"]
    /\ UNCHANGED <<workers, jobQueue, queueCap, chanClosed, wg, wgWaiters, once,
                   mu, closed, activeWorkers, totalJobs, completedJobs, wjob,
                   pc, cjob, job, nextJob, submits, spawned, closeCount, fault,
                   quiet>>

\* job() returns normally; owp.incrementCompletedJobs(); then the deferred
\* function starts: recover() finds nothing, owp.decrementActiveWorkers()
WorkerJobReturns(w) ==
    /\ UNCHANGED <<anVars, recovered>>
    /\ wpc[w] = "running"
    /\ completedJobs' = completedJobs + 1
    /\ activeWorkers' = activeWorkers - 1
    /\ job' = [job EXCEPT ![wjob[w]].st = "finished"]
    /\ wpc' = [wpc EXCEPT ![w] = "signalling"]
    /\ UNCHANGED <<workers, jobQueue, queueCap, chanClosed, wg, wgWaiters, once,
                   mu, closed, totalJobs, wjob, pc, cjob, nextJob, submits,
                   spawned, closeCount, fault, quiet>>

\* the worker without recover(): the panic unwinds the worker goroutine
WorkerJobPanicsUnrecovered(w) ==
    /\ UNCHANGED <<anVars, recovered>>
    /\ wpc[w] = "running"
    /\ recovered < MaxPanics
    /\ fault' = "panic in job"
    /\ wpc' = [wpc EXCEPT ![w] = "dead"]
    /\ UNCHANGED <<workers, jobQueue, queueCap, chanClosed, wg, wgWaiters, once,
                   mu, closed, activeWorkers, totalJobs, completedJobs, wjob,
                   pc, cjob, job, nextJob, submits, spawned, closeCount, quiet>>

\* a worker whose decrementActiveWorkers() follows job() and is skipped by
\* the panic
ActiveAfterPanicKept == activeWorkers

\* defer func() { recover(); owp.decrementActiveWorkers(); ... }: the
\* deferred function runs although job() panicked
ActiveAfterPanic == activeWorkers - 1

\* job() panics (what a submitted function does is decided when it runs):
\* incrementCompletedJobs is skipped; the deferred function recovers the
\* panic, owp.decrementActiveWorkers()
WorkerJobPanics(w) ==
    /\ UNCHANGED anVars
    /\ wpc[w] = "running"
    /\ recovered < MaxPanics
    /\ recovered' = recovered + 1
    /\ activeWorkers' = ActiveAfterPanic
    /\ job' = [job EXCEPT ![wjob[w]].st = "finished"]
    /\ wpc' = [wpc EXCEPT ![w] = "signalling"]
    /\ UNCHANGED <<workers, jobQueue, queueCap, chanClosed, wg, wgWaiters, once,
                   mu, closed, totalJobs, completedJobs, wjob, pc, cjob,
                   nextJob, submits, spawned, closeCount, fault, quiet>>

\* deferred: owp.wg.Done(); back to the range loop
WorkerDone(w) ==
    /\ UNCHANGED <<anVars, recovered>>
    /\ wpc[w] = "signalling"
    /\ WgDone
    /\ wjob' = [wjob EXCEPT ![w] = None]
    /\ wpc' = [wpc EXCEPT ![w] = "idle"]
    /\ UNCHANGED <<workers, jobQueue, queueCap, chanClosed, once, mu, closed,
                   activeWorkers, totalJobs, completedJobs, pc, cjob, job,
                   nextJob, submits, spawned, closeCount, quiet>>

\* ----------------------------------------------------------------- Submit
\* Submit(job) / SubmitWithTimeout(job, timeout), up to the select:
\*   owp.Start(); owp.mu.RLock(); defer owp.mu.RUnlock()
\*   if owp.closed { return false }
\*   owp.wg.Add(1); owp.incrementTotalJobs()
SubmitEnter(c) ==
    /\ UNCHANGED <<anVars, recovered>>
    /\ AtRest(c)
    /\ submits < MaxJobs
    /\ CanRLock
    /\ StartBody
    /\ nextJob' = nextJob + 1
    /\ submits' = submits + 1
    /\ quiet' = {}
    /\ IF closed
       THEN /\ job' = [job EXCEPT ![nextJob].st = "rejected",
                                  ![nextJob].ret = "false",
                                  ![nextJob].late = TRUE]
            /\ pc' = [pc EXCEPT ![c] = "idle"]
            /\ UNCHANGED <<mu, wg, totalJobs, cjob>>
       ELSE /\ job' = [job EXCEPT ![nextJob].st = "submitting"]
            /\ mu' = ReadLockHeld(c)
            /\ wg' = WgAdd
            /\ totalJobs' = totalJobs + 1
            /\ cjob' = [cjob EXCEPT ![c] = nextJob]
            /\ pc' = [pc EXCEPT ![c] = "submit_select"]
    /\ UNCHANGED <<workers, jobQueue, queueCap, chanClosed, wgWaiters, closed,
                   activeWorkers, completedJobs, wjob, closeCount, fault>>

\* case owp.jobQueue <- job: return true   (a send on a closed channel is a
\* runtime panic)
SubmitSend(c) ==
    /\ UNCHANGED <<anVars, recovered>>
    /\ pc[c] = "submit_select"
    /\ chanClosed \/ QueueHasRoom
    /\ IF chanClosed
       THEN /\ fault' = "send on closed channel"
            /\ job' = [job EXCEPT ![cjob[c]].st = "rejected"]
            /\ UNCHANGED jobQueue
       ELSE /\ jobQueue' = Append(jobQueue, cjob[c])
            /\ job' = [job EXCEPT ![cjob[c]].st = "queued",
                                  ![cjob[c]].ret = "true"]
            /\ UNCHANGED fault
    /\ mu' = RUnlock(c)
    /\ pc' = [pc EXCEPT ![c] = "idle"]
    /\ cjob' = [cjob EXCEPT ![c] = None]
    /\ UNCHANGED <<workers, queueCap, chanClosed, wg, wgWaiters, once, closed,
                   activeWorkers, totalJobs, completedJobs, wpc, wjob, nextJob,
                   submits, spawned, closeCount, quiet>>

\* case <-time.After(100ms) / <-timer.C: owp.wg.Done()
\* The timer wins only over a send that cannot proceed: the queue has been
\* full (and open: the read lock is held) since the select began.
SubmitTimeout(c) ==
    /\ UNCHANGED <<anVars, recovered>>
    /\ pc[c] = "submit_select"
    /\ ~chanClosed
    /\ ~QueueHasRoom
    /\ WgDone
    /\ pc' = [pc EXCEPT ![c] = "submit_dec"]
    /\ UNCHANGED <<workers, jobQueue, queueCap, chanClosed, once, mu, closed,
                   activeWorkers, totalJobs, completedJobs, wpc, wjob, cjob,
                   job, nextJob, submits, spawned, closeCount, quiet>>

\* atomic.AddInt64(&owp.totalJobs, -1); return false
SubmitDec(c) ==
    /\ UNCHANGED <<anVars, recovered>>
    /\ pc[c] = "submit_dec"
    /\ totalJobs' = TotalJobsTakenBack
    /\ job' = [job EXCEPT ![cjob[c]].st = "rejected", ![cjob[c]].ret = "false"]
    /\ mu' = RUnlock(c)
    /\ pc' = [pc EXCEPT ![c] = "idle"]
    /\ cjob' = [cjob EXCEPT ![c] = None]
    /\ UNCHANGED <<workers, jobQueue, queueCap, chanClosed, wg, wgWaiters, once,
                   closed, activeWorkers, completedJobs, wpc, wjob, nextJob,
                   submits, spawned, closeCount, fault, quiet>>

\* --------------------------------------------- Submit called from a job
\* The function a worker runs calls owp.Submit(...) on its own pool:
\* owp.Start() finds the pool started; owp.mu.RLock() takes the read lock,
\* or parks the goroutine behind a Lock() that is waiting
JobSubmitCall(w) ==
    /\ UNCHANGED <<anVars, recovered>>
    /\ wpc[w] = "running"
    /\ submits < MaxJobs
    /\ nextJob \in Jobs
    /\ once
    /\ cjob' = [cjob EXCEPT ![Goroutine(w)] = nextJob]
    /\ nextJob' = nextJob + 1
    /\ submits' = submits + 1
    /\ wpc' = [wpc EXCEPT ![w] = "job_rlock"]
    /\ mu' = IF CanRLock THEN ReadLockHeld(Goroutine(w))
             ELSE [mu EXCEPT !.parked = @ \cup {Goroutine(w)}]
    /\ UNCHANGED <<workers, jobQueue, queueCap, chanClosed, wg, wgWaiters, once,
                   closed, activeWorkers, totalJobs, completedJobs, wjob,
                   pc, job, spawned, closeCount, fault, quiet>>

\* owp.mu.RLock() has returned; if owp.closed { return false };
\* owp.wg.Add(1); owp.incrementTotalJobs()
JobSubmitEnter(w) ==
    /\ UNCHANGED <<anVars, recovered>>
    /\ wpc[w] = "job_rlock"
    /\ Goroutine(w) \in mu.readers
    /\ quiet' = {}
    /\ IF closed
       THEN /\ job' = [job EXCEPT ![cjob[Goroutine(w)]].st = "rejected",
                                  ![cjob[Goroutine(w)]].ret = "false",
                                  ![cjob[Goroutine(w)]].late = TRUE]
            /\ cjob' = [cjob EXCEPT ![Goroutine(w)] = None]
            /\ wpc' = [wpc EXCEPT ![w] = "running"]
            /\ mu' = RUnlock(Goroutine(w))
            /\ UNCHANGED <<wg, totalJobs>>
       ELSE /\ job' = [job EXCEPT ![cjob[Goroutine(w)]].st = "submitting"]
            /\ mu' = ReadLockHeld(Goroutine(w))
            /\ wg' = WgAdd
            /\ totalJobs' = totalJobs + 1
            /\ wpc' = [wpc EXCEPT ![w] = "job_select"]
            /\ UNCHANGED cjob
    /\ UNCHANGED <<workers, jobQueue, queueCap, chanClosed, wgWaiters, once,
                   closed, activeWorkers, completedJobs, wjob, pc, nextJob,
                   submits, spawned, closeCount, fault>>

\* case owp.jobQueue <- job: return true (the read lock is held, so the
\* queue is open)
JobSubmitSend(w) ==
    /\ UNCHANGED <<anVars, recovered>>
    /\ wpc[w] = "job_select"
    /\ QueueHasRoom
    /\ jobQueue' = Append(jobQueue, cjob[Goroutine(w)])
    /\ job' = [job EXCEPT ![cjob[Goroutine(w)]].st = "queued",
                          ![cjob[Goroutine(w)]].ret = "true"]
    /\ mu' = RUnlock(Goroutine(w))
    /\ cjob' = [cjob EXCEPT ![Goroutine(w)] = None]
    /\ wpc' = [wpc EXCEPT ![w] = "running"]
    /\ UNCHANGED <<workers, queueCap, chanClosed, wg, wgWaiters, once, closed,
                   activeWorkers, totalJobs, completedJobs, wjob, pc, nextJob,
                   submits, spawned, closeCount, fault, quiet>>

\* case <-time.After(100ms): owp.wg.Done(); totalJobs taken back;
\* return false
JobSubmitTimeout(w) ==
    /\ UNCHANGED <<anVars, recovered>>
    /\ wpc[w] = "job_select"
    /\ ~QueueHasRoom
    /\ WgDone
    /\ totalJobs' = TotalJobsTakenBack
    /\ job' = [job EXCEPT ![cjob[Goroutine(w)]].st = "rejected",
                          ![cjob[Goroutine(w)]].ret = "false"]
    /\ mu' = RUnlock(Goroutine(w))
    /\ cjob' = [cjob EXCEPT ![Goroutine(w)] = None]
    /\ wpc' = [wpc EXCEPT ![w] = "running"]
    /\ UNCHANGED <<workers, jobQueue, queueCap, chanClosed, once, closed,
                   activeWorkers, completedJobs, wjob, pc, nextJob, submits,
                   spawned, closeCount, quiet>>

\* ------------------------------------------------------------------- Wait
\* owp.wg.Wait(): returns at once when the counter is zero, parks otherwise
WaitCall(c) ==
    /\ UNCHANGED <<anVars, recovered>>
    /\ AtRest(c)
    /\ quiet' = IF \E d \in Clients : InSubmit(d)
                THEN quiet \ {c} ELSE quiet \cup {c}
    /\ IF wg = 0
       THEN pc' = [pc EXCEPT ![c] = "idle"] /\ UNCHANGED wgWaiters
       ELSE pc' = [pc EXCEPT ![c] = "waiting"] /\ wgWaiters' = wgWaiters \cup {c}
    /\ UNCHANGED <<workers, jobQueue, queueCap, chanClosed, wg, once, mu,
                   closed, activeWorkers, totalJobs, completedJobs, wpc, wjob,
                   cjob, job, nextJob, submits, spawned, closeCount, fault>>

WaitReturn(c) ==
    /\ UNCHANGED <<anVars, recovered>>
    /\ pc[c] = "waiting"
    /\ c \notin wgWaiters
    /\ pc' = [pc EXCEPT ![c] = "idle"]
    /\ UNCHANGED <<workers, jobQueue, queueCap, chanClosed, wg, wgWaiters, once,
                   mu, closed, activeWorkers, totalJobs, completedJobs, wpc,
                   wjob, cjob, job, nextJob, submits, spawned, closeCount,
                   fault, quiet>>

\* ------------------------------------------------------------------ Close
\* owp.mu.Lock() is requested
CloseLock(c) ==
    /\ UNCHANGED <<anVars, recovered>>
    /\ AtRest(c)
    /\ mu' = [mu EXCEPT !.pending = @ \cup {c}]
    /\ pc' = [pc EXCEPT ![c] = "close_lock"]
    /\ Leave(c)
    /\ UNCHANGED <<workers, jobQueue, queueCap, chanClosed, wg, wgWaiters, once,
                   closed, activeWorkers, totalJobs, completedJobs, wpc, wjob,
                   cjob, job, nextJob, submits, spawned, closeCount, fault>>

\* a Close that keeps the write lock while it waits for the jobs
LockKeptForWait(c) == [mu EXCEPT !.pending = @ \ {c}, !.writer = c]

\* owp.mu.Unlock() before owp.wg.Wait(): the lock is free when the
\* critical section is over, and Unlock admits the readers parked in RLock
\* before the next Lock is granted
LockReleased(c) ==
    [mu EXCEPT !.pending = @ \ {c}, !.readers = @ \cup mu.parked,
               !.parked = {}]

\* under the write lock: if owp.closed { Unlock; return }
\* owp.closed = true; close(owp.jobQueue); Unlock; then owp.wg.Wait()
CloseCritical(c) ==
    /\ UNCHANGED <<anVars, recovered>>
    /\ pc[c] = "close_lock"
    /\ CanLock(c)
    /\ mu' = LockReleased(c)
    /\ IF AlreadyClosed
       THEN /\ pc' = [pc EXCEPT ![c] = "closed"]
            /\ UNCHANGED <<closed, chanClosed, closeCount, fault, wgWaiters>>
       ELSE /\ closed' = TRUE
            /\ chanClosed' = TRUE
            /\ closeCount' = closeCount + 1
            /\ fault' = IF chanClosed THEN "close of closed channel" ELSE fault
            /\ IF wg = 0
               THEN pc' = [pc EXCEPT ![c] = "closed"] /\ UNCHANGED wgWaiters
               ELSE /\ pc' = [pc EXCEPT ![c] = "close_wait"]
                    /\ wgWaiters' = wgWaiters \cup {c}
    /\ UNCHANGED <<workers, jobQueue, queueCap, wg, once, activeWorkers,
                   totalJobs, completedJobs, wpc, wjob, cjob, job, nextJob,
                   submits, spawned, quiet>>

\* owp.wg.Wait() returns, so does Close
CloseReturn(c) ==
    /\ UNCHANGED <<anVars, recovered>>
    /\ pc[c] = "close_wait"
    /\ c \notin wgWaiters
    /\ pc' = [pc EXCEPT ![c] = "closed"]
    /\ UNCHANGED <<workers, jobQueue, queueCap, chanClosed, wg, wgWaiters, once,
                   mu, closed, activeWorkers, totalJobs, completedJobs, wpc,
                   wjob, cjob, job, nextJob, submits, spawned, closeCount,
                   fault, quiet>>

\* --------------------------------------------------------------- GetStats
\* RLock; WorkerPoolStats{workers, activeWorkers, totalJobs, completedJobs,
\* len(jobQueue)}; RUnlock: the record a caller gets in the current state
GetStats ==
    [Workers |-> workers,
     ActiveWorkers |-> activeWorkers,
     TotalJobs |-> totalJobs,
     CompletedJobs |-> completedJobs,
     QueueLength |-> Len(jobQueue)]

\* ----------------------------------------------------------------- Resize
\* if newWorkerCount <= 0 { newWorkerCount = runtime.NumCPU() }; owp.mu.Lock()
ResizeLock(c, n) ==
    /\ UNCHANGED <<anVars, recovered>>
    /\ AtRest(c)
    /\ cjob' = [cjob EXCEPT ![c] = IF n <= 0 THEN NumCPU ELSE n]
    /\ mu' = [mu EXCEPT !.pending = @ \cup {c}]
    /\ pc' = [pc EXCEPT ![c] = "resize_lock"]
    /\ Leave(c)
    /\ UNCHANGED <<workers, jobQueue, queueCap, chanClosed, wg, wgWaiters, once,
                   closed, activeWorkers, totalJobs, completedJobs, wpc, wjob,
                   job, nextJob, submits, spawned, closeCount, fault>>

\* under the write lock: if owp.closed { return }; owp.workers = newWorkerCount
ResizeCritical(c) ==
    /\ UNCHANGED <<anVars, recovered>>
    /\ pc[c] = "resize_lock"
    /\ CanLock(c)
    /\ mu' = LockReleased(c)
    /\ workers' = IF closed THEN workers ELSE cjob[c]
    /\ cjob' = [cjob EXCEPT ![c] = None]
    /\ pc' = [pc EXCEPT ![c] = "idle"]
    /\ UNCHANGED <<jobQueue, queueCap, chanClosed, wg, wgWaiters, once, closed,
                   activeWorkers, totalJobs, completedJobs, wpc, wjob, job,
                   nextJob, submits, spawned, closeCount, fault, quiet>>

\* ------------------------------------- internal/analyzer/worker_pool.go
\* The WorkerPool of internal/analyzer/worker_pool.go.  Start, the range
\* loop of the worker, Wait and the counters are those above; Submit
\* registers the job after the send, the worker calls wg.Done() after the
\* function that recovers, and Close does not wait.

\* Submit(job) / SubmitWithTimeout(job, timeout), lines 96-103 and 118-125:
\*   owp.Start(); owp.mu.RLock(); defer owp.mu.RUnlock()
\*   if owp.closed { return false }
LateSubmitEnter(c) ==
    /\ UNCHANGED <<anVars, recovered>>
    /\ AtRest(c)
    /\ submits < MaxJobs
    /\ CanRLock
    /\ StartBody
    /\ nextJob' = nextJob + 1
    /\ submits' = submits + 1
    /\ quiet' = {}
    /\ IF closed
       THEN /\ job' = [job EXCEPT ![nextJob].st = "rejected",
                                  ![nextJob].ret = "false",
                                  ![nextJob].late = TRUE]
            /\ pc' = [pc EXCEPT ![c] = "idle"]
            /\ UNCHANGED <<mu, cjob>>
       ELSE /\ job' = [job EXCEPT ![nextJob].st = "submitting"]
            /\ mu' = ReadLockHeld(c)
            /\ cjob' = [cjob EXCEPT ![c] = nextJob]
            /\ pc' = [pc EXCEPT ![c] = "submit_select"]
    /\ UNCHANGED <<workers, jobQueue, queueCap, chanClosed, wg, wgWaiters,
                   closed, activeWorkers, totalJobs, completedJobs, wjob,
                   closeCount, fault>>

\* lines 107 and 131: case owp.jobQueue <- job: the job is in the queue, the
\* counters are not yet touched
LateSubmitSend(c) ==
    /\ UNCHANGED <<anVars, recovered>>
    /\ pc[c] = "submit_select"
    /\ ~chanClosed
    /\ QueueHasRoom
    /\ jobQueue' = Append(jobQueue, cjob[c])
    /\ job' = [job EXCEPT ![cjob[c]].st = "queued"]
    /\ pc' = [pc EXCEPT ![c] = "submit_add"]
    /\ UNCHANGED <<workers, queueCap, chanClosed, wg, wgWaiters, once, mu,
                   closed, activeWorkers, totalJobs, completedJobs, wpc, wjob,
                   cjob, nextJob, submits, spawned, closeCount, fault, quiet>>

\* lines 109-111 and 133-135: owp.wg.Add(1); owp.incrementTotalJobs();
\* return true
LateSubmitRegister(c) ==
    /\ UNCHANGED <<anVars, recovered>>
    /\ pc[c] = "submit_add"
    /\ wg' = WgAdd
    /\ totalJobs' = totalJobs + 1
    /\ job' = [job EXCEPT ![cjob[c]].ret = "true"]
    /\ mu' = RUnlock(c)
    /\ pc' = [pc EXCEPT ![c] = "idle"]
    /\ cjob' = [cjob EXCEPT ![c] = None]
    /\ UNCHANGED <<workers, jobQueue, queueCap, chanClosed, wgWaiters, once,
                   closed, activeWorkers, completedJobs, wpc, wjob, nextJob,
                   submits, spawned, closeCount, fault, quiet>>

\* lines 112-113 and 136-137: the timer wins over a send that cannot
\* proceed; return false
LateSubmitTimeout(c) ==
    /\ UNCHANGED <<anVars, recovered>>
    /\ pc[c] = "submit_select"
    /\ ~chanClosed
    /\ ~QueueHasRoom
    /\ job' = [job EXCEPT ![cjob[c]].st = "rejected", ![cjob[c]].ret = "false"]
    /\ mu' = RUnlock(c)
    /\ pc' = [pc EXCEPT ![c] = "idle"]
    /\ cjob' = [cjob EXCEPT ![c] = None]
    /\ UNCHANGED <<workers, jobQueue, queueCap, chanClosed, wg, wgWaiters, once,
                   closed, activeWorkers, totalJobs, completedJobs, wpc, wjob,
                   nextJob, submits, spawned, closeCount, fault, quiet>>

\* lines 76-88: job() panics; owp.decrementActiveWorkers() and
\* owp.incrementCompletedJobs() are skipped, the deferred function recovers
LateWorkerJobPanics(w) ==
    /\ UNCHANGED anVars
    /\ wpc[w] = "running"
    /\ recovered < MaxPanics
    /\ recovered' = recovered + 1
    /\ job' = [job EXCEPT ![wjob[w]].st = "finished"]
    /\ wpc' = [wpc EXCEPT ![w] = "signalling"]
    /\ UNCHANGED <<workers, jobQueue, queueCap, chanClosed, wg, wgWaiters, once,
                   mu, closed, activeWorkers, totalJobs, completedJobs, wjob,
                   pc, cjob, nextJob, submits, spawned, closeCount, fault,
                   quiet>>

\* Close, lines 163-173: under the write lock, if owp.closed { return };
\* owp.closed = true; close(owp.jobQueue); the deferred Unlock
LateCloseCritical(c) ==
    /\ UNCHANGED <<anVars, recovered>>
    /\ pc[c] = "close_lock"
    /\ CanLock(c)
    /\ mu' = LockReleased(c)
    /\ IF closed
       THEN UNCHANGED <<closed, chanClosed, closeCount, fault>>
       ELSE /\ closed' = TRUE
            /\ chanClosed' = TRUE
            /\ closeCount' = closeCount + 1
            /\ fault' = IF chanClosed THEN "close of closed channel" ELSE fault
    /\ pc' = [pc EXCEPT ![c] = "closed"]
    /\ UNCHANGED <<workers, jobQueue, queueCap, wg, wgWaiters, once,
                   activeWorkers, totalJobs, completedJobs, wpc, wjob, cjob,
                   job, nextJob, submits, spawned, quiet>>

\* ----------------------------------------------------------- memory pools
\* GetBuffer / PutBuffer ([]byte), GetSlice / PutSlice ([]float64) and
\* GetMatrix / PutMatrix ([][]float64).  A slice is a backing array and a
\* length; an array has MaxFill cells unless it was grown past its pool's
\* capacity limit.  A cell holds Nothing (0, 0.0 or nil) or the caller that
\* wrote it.

\* backing arrays made during a run
MaxArrays == 2
\* cells of a backing array that a holder fills
MaxFill == 2

PoolKinds == {"buffer", "slice", "matrix"}

Nothing == None

NoSlice == [array |-> None]

\* bufferPool, slicePool, matrixPool of NewWorkerPool: nothing pooled yet
NewMemoryPools ==
    [arrays |-> <<>>,
     pool |-> [kind \in PoolKinds |-> {}],
     held |-> [c \in Clients |-> NoSlice]]

\* make([]T, 0, n): a new backing array, every cell zero
MakeArray(kind, big) ==
    [kind |-> kind, big |-> big, data |-> [i \in 1..MaxFill |-> Nothing]]

\* PutMatrix, lines 237-239: for i := range matrix { matrix[i] = nil };
\* PutBuffer and PutSlice leave the cells as they are
ClearedOnPut(array, len) ==
    IF array.kind = "matrix"
    THEN [array EXCEPT !.data = [i \in 1..MaxFill |->
                                    IF i <= len THEN Nothing ELSE @[i]]]
    ELSE array

\* GetBuffer / GetSlice / GetMatrix: sync.Pool.Get hands out one of the
\* pooled slices, or what New makes (also when the pool is not empty)
GetPooled(c, kind) ==
    /\ UNCHANGED <<poolVars, callVars, qualityValidator, optcall, qcall,
                   mcall>>
    /\ memPools.held[c] = NoSlice
    /\ \/ \E s \in memPools.pool[kind] :
            memPools' = [memPools EXCEPT !.pool[kind] = @ \ {s},
                                         !.held[c] = s]
       \/ /\ Len(memPools.arrays) < MaxArrays
          /\ memPools' =
                [memPools EXCEPT
                    !.arrays = Append(@, MakeArray(kind, FALSE)),
                    !.held[c] = [array |-> Len(memPools.arrays) + 1,
                                 len |-> 0]]

\* the holder appends to its slice: within the capacity the value goes into
\* the next cell of the backing array
AppendHeld(c) ==
    /\ UNCHANGED <<poolVars, callVars, qualityValidator, optcall, qcall,
                   mcall>>
    /\ memPools.held[c] # NoSlice
    /\ memPools.held[c].len < MaxFill
    /\ memPools' =
          [memPools EXCEPT
              !.arrays[memPools.held[c].array].data[memPools.held[c].len + 1]
                  = c,
              !.held[c].len = @ + 1]

\* the holder appends past the capacity: append moves the slice to a new,
\* larger backing array, here one over the pool's capacity limit
GrowHeld(c) ==
    /\ UNCHANGED <<poolVars, callVars, qualityValidator, optcall, qcall,
                   mcall>>
    /\ memPools.held[c] # NoSlice
    /\ memPools.held[c].len = MaxFill
    /\ Len(memPools.arrays) < MaxArrays
    /\ memPools' =
          [memPools EXCEPT
              !.arrays = Append(@, [@[memPools.held[c].array]
                                       EXCEPT !.big = TRUE]),
              !.held[c].array = Len(memPools.arrays) + 1]

\* PutBuffer / PutSlice / PutMatrix: if cap(x) <= limit { pool.Put(x[:0]) }
PutPooled(c) ==
    /\ UNCHANGED <<poolVars, callVars, qualityValidator, optcall, qcall,
                   mcall>>
    /\ memPools.held[c] # NoSlice
    /\ \E held \in {memPools.held[c]} : \E array \in {memPools.arrays[held.array]} :
          IF array.big
          THEN memPools' = [memPools EXCEPT !.held[c] = NoSlice]
          ELSE memPools' =
                  [memPools EXCEPT
                      !.arrays[held.array] = ClearedOnPut(array, held.len),
                      !.pool[array.kind] =
                          @ \cup {[array |-> held.array, len |-> 0]},
                      !.held[c] = NoSlice]

\* ============================================================== Part 2
\* coreAnalyzer.AnalyzeWithOptions.  Fractions (luminance, saturation,
\* channel averages and their thresholds) are carried in hundredths;
\* Laplacian variance, brightness and angles in whole units.  Timestamp and
\* ProcessingTimeSec are wall-clock values and are left out.

\* Go's nil pointer / nil slice
Nil == None

Abs(x) == IF x < 0 THEN -x ELSE x

Max2(a, b) == IF a > b THEN a ELSE b

Min2(a, b) == IF a < b THEN a ELSE b

\* the input images, each given by what the MetricsCalculator and the
\* QRDetector measure on it (Skew is <<>> when DetectSkew finds fewer than ten
\* edge points, <<angle>> otherwise)
Images == {"sharp", "soft", "poor"}

Measure(img) ==
    CASE img = "sharp" ->
            [Width |-> 1000, Height |-> 1200, LaplacianVar |-> 800,
             AvgLuminance |-> 50, AvgSaturation |-> 30,
             Channels |-> <<50, 50, 50>>, Brightness |-> 128, Skew |-> <<0>>,
             Contours |-> 5, Edges |-> TRUE, QR |-> FALSE]
      [] img = "soft" ->
            [Width |-> 1000, Height |-> 1200, LaplacianVar |-> 300,
             AvgLuminance |-> 50, AvgSaturation |-> 30,
             Channels |-> <<50, 50, 50>>, Brightness |-> 128, Skew |-> <<>>,
             Contours |-> 2, Edges |-> TRUE, QR |-> TRUE]
      [] img = "poor" ->
            [Width |-> 640, Height |-> 480, LaplacianVar |-> 50,
             AvgLuminance |-> 15, AvgSaturation |-> 3,
             Channels |-> <<60, 40, 30>>, Brightness |-> 40, Skew |-> <<12>>,
             Contours |-> 0, Edges |-> FALSE, QR |-> FALSE]

\* ---------------------------------------------------------------- options
DefaultOptions ==
    [OCRMode |-> FALSE, FastMode |-> FALSE, QualityMode |-> TRUE,
     BlurThreshold |-> 100, OverexposureThreshold |-> 95,
     OversaturationThreshold |-> 90,
     SkipQRDetection |-> FALSE, SkipWhiteBalance |-> FALSE,
     SkipContourDetection |-> FALSE, SkipEdgeDetection |-> FALSE,
     OCRExpectedText |-> ""]

OCROptions ==
    [DefaultOptions EXCEPT !.OCRMode = TRUE, !.QualityMode = TRUE,
                           !.BlurThreshold = 300, !.SkipQRDetection = TRUE]

FastOptions ==
    [DefaultOptions EXCEPT !.FastMode = TRUE, !.QualityMode = FALSE,
                           !.SkipContourDetection = TRUE,
                           !.SkipEdgeDetection = TRUE,
                           !.SkipWhiteBalance = TRUE]

WithOCR(opts, expectedText) ==
    [opts EXCEPT !.OCRMode = TRUE, !.OCRExpectedText = expectedText,
                 !.QualityMode = TRUE]

QualityOptions ==
    [DefaultOptions EXCEPT !.QualityMode = TRUE, !.BlurThreshold = 400,
                           !.OverexposureThreshold = 90,
                           !.OversaturationThreshold = 85]

WithCustomThresholds(opts, blur, overexposure, oversaturation) ==
    [opts EXCEPT !.BlurThreshold = blur,
                 !.OverexposureThreshold = overexposure,
                 !.OversaturationThreshold = oversaturation]

WithFastMode(opts) ==
    [opts EXCEPT !.FastMode = TRUE, !.QualityMode = FALSE,
                 !.SkipContourDetection = TRUE, !.SkipEdgeDetection = TRUE]

WithoutQRDetection(opts) == [opts EXCEPT !.SkipQRDetection = TRUE]

\* the longest chain of builder calls a caller makes
MaxChain == 3

\* a method with a pointer receiver: opts is the caller's own value
PointerReceiver(locs, i) == [locs |-> locs, opts |-> i]

\* func (opts AnalysisOptions) ...: opts is a copy of the receiver, at a
\* location of its own
ValueReceiver(locs, i) ==
    [locs |-> Append(locs, locs[i]), opts |-> Len(locs) + 1]

\* a builder called on the value at location i: the method assigns to its
\* opts and returns it; built is what the assignments make of the value
Build(i, builder, built) ==
    /\ UNCHANGED <<poolVars, callVars, qualityValidator, qcall, mcall,
                   memPools>>
    /\ optcall.locs # <<>>
    /\ Len(optcall.locs) <= MaxChain
    /\ i \in 1..Len(optcall.locs)
    /\ \E r \in {ValueReceiver(optcall.locs, i)} :
          optcall' = [locs |-> [r.locs EXCEPT ![r.opts] = built],
                      builder |-> builder, receiver |-> i,
                      result |-> r.opts]

WithOCRCall(i, expectedText) ==
    Build(i, "WithOCR", WithOCR(optcall.locs[i], expectedText))

WithCustomThresholdsCall(i, t) ==
    Build(i, "WithCustomThresholds",
          WithCustomThresholds(optcall.locs[i], t[1], t[2], t[3]))

WithFastModeCall(i) ==
    Build(i, "WithFastMode", WithFastMode(optcall.locs[i]))

WithoutQRDetectionCall(i) ==
    Build(i, "WithoutQRDetection", WithoutQRDetection(optcall.locs[i]))

\* the calls made on the analyzer: Analyze(sharp, false), a fast analysis,
\* AnalyzeWithOCR(poor, "invoice") and AnalyzeWithOCR(soft, "receipt")
Requests ==
    {[img |-> "sharp", options |-> DefaultOptions],
     [img |-> "poor", options |-> FastOptions],
     [img |-> "poor", options |-> WithOCR(OCROptions, "invoice")],
     [img |-> "soft", options |-> WithOCR(OCROptions, "receipt")]}

\* ------------------------------------------------------------- resolution
\* strings are sequences of one-character strings
DigitChars == <<"0", "1", "2", "3", "4", "5", "6", "7", "8", "9">>

IsDigit(ch) == \E d \in 1..Len(DigitChars) : DigitChars[d] = ch

DigitValue(ch) == (CHOOSE d \in 1..Len(DigitChars) : DigitChars[d] = ch) - 1

\* the %d verb of fmt.Sprintf for a non-negative int
RECURSIVE Itoa(_)
Itoa(n) ==
    IF n < Len(DigitChars)
    THEN <<DigitChars[n + 1]>>
    ELSE Itoa(n \div Len(DigitChars)) \o <<DigitChars[(n % Len(DigitChars)) + 1]>>

\* fmt.Sprintf("%dx%d", width, height)
FormatResolution(width, height) == Itoa(width) \o <<"x">> \o Itoa(height)

\* strings.Split(s, "x"): the pieces of s between its separators
Split(s) ==
    LET seps == {k \in 1..Len(s) : s[k] = "x"}
        sep(i) == CHOOSE k \in seps : Cardinality({m \in seps : m < k}) = i - 1
        first(i) == IF i = 1 THEN 1 ELSE sep(i - 1) + 1
        last(i) == IF i = Cardinality(seps) + 1 THEN Len(s) ELSE sep(i) - 1
    IN [i \in 1..(Cardinality(seps) + 1) |-> SubSeq(s, first(i), last(i))]

\* the value of the first n digits of s
RECURSIVE AtoiPrefix(_, _)
AtoiPrefix(s, n) ==
    IF n = 0 THEN 0
    ELSE AtoiPrefix(s, n - 1) * Len(DigitChars) + DigitValue(s[n])

\* strconv.Atoi on an unsigned decimal string: value, and whether it parsed
AtoiValue(s) == AtoiPrefix(s, Len(s))

Atoi(s) ==
    IF s # <<>> /\ \A i \in 1..Len(s) : IsDigit(s[i])
    THEN [ok |-> TRUE, val |-> AtoiValue(s)]
    ELSE [ok |-> FALSE, val |-> 0]

parseResolution(resolution) ==
    IF resolution = <<>> THEN <<0, 0>>
    ELSE LET parts == Split(resolution) IN
         IF Len(parts) # 2 THEN <<0, 0>>
         ELSE LET width == Atoi(parts[1])
                  height == Atoi(parts[2])
              IN IF ~width.ok \/ ~height.ok THEN <<0, 0>>
                 ELSE <<width.val, height.val>>

\* ------------------------------------------------------- QualityValidator
DefaultQualityThresholds ==
    [MinLaplacianVariance |-> 100, MaxLaplacianVariance |-> 2000,
     MinLaplacianVarianceForOCR |-> 500,
     MinBrightness |-> 80, MaxBrightness |-> 220,
     MinLuminance |-> 20, MaxLuminance |-> 90,
     MinSaturation |-> 5, MaxChannelImbalance |-> 15, MaxSkewAngle |-> 5,
     MinWidth |-> 800, MinHeight |-> 1000, MinTotalPixels |-> 800000]

\* the thresholds of TestNewQualityValidatorWithThresholds: the fields the
\* literal leaves out are zero
CustomThresholds ==
    [MinLaplacianVariance |-> 500, MaxLaplacianVariance |-> 0,
     MinLaplacianVarianceForOCR |-> 0,
     MinBrightness |-> 100, MaxBrightness |-> 200,
     MinLuminance |-> 0, MaxLuminance |-> 0,
     MinSaturation |-> 0, MaxChannelImbalance |-> 0, MaxSkewAngle |-> 0,
     MinWidth |-> 0, MinHeight |-> 0, MinTotalPixels |-> 0]

\* thresholds that bound the pixel count and leave the sides free
AreaThresholds ==
    [DefaultQualityThresholds EXCEPT !.MinWidth = 0, !.MinHeight = 0]

\* NewQualityValidatorWithThresholds
NewQualityValidatorWithThresholds(thresholds) == [thresholds |-> thresholds]

\* NewQualityValidator
NewQualityValidator ==
    NewQualityValidatorWithThresholds(DefaultQualityThresholds)

QualityIssue(type, message, severity, actualValue, threshold) ==
    [Type |-> type, Message |-> message, Severity |-> severity,
     ActualValue |-> actualValue, Threshold |-> threshold]

When(cond, issue) == IF cond THEN <<issue>> ELSE <<>>

isChannelBalanced(qv, channels) ==
    LET max == Max2(channels[1], Max2(channels[2], channels[3]))
        min == Min2(channels[1], Min2(channels[2], channels[3]))
    IN (max - min) <= qv.thresholds.MaxChannelImbalance

isImageBlurry(qv, metrics) ==
    IF metrics.LaplacianVar <= qv.thresholds.MinLaplacianVariance
    THEN IF metrics.LaplacianVar < 1
         THEN TRUE
         ELSE LET isBalanced == isChannelBalanced(qv, metrics.ChannelBalance)
                  luminanceOK == metrics.AvgLuminance >= 30
                                    /\ metrics.AvgLuminance <= 80
              IN ~(luminanceOK /\ isBalanced /\ ~metrics.Overexposed
                     /\ ~metrics.Oversaturated)
    ELSE FALSE

ValidateBasicQuality(qv, metrics) ==
    LET T == qv.thresholds
        channels == metrics.ChannelBalance
    IN  (IF isImageBlurry(qv, metrics)
         THEN <<QualityIssue("blurriness",
                    "Image is blurry. Please hold the camera steady and try again.",
                    "error", metrics.LaplacianVar, T.MinLaplacianVariance)>>
         ELSE When(metrics.LaplacianVar >= T.MaxLaplacianVariance,
                QualityIssue("over_sharpening",
                    "Image has too much noise or artificial sharpening. Use natural lighting and avoid digital zoom.",
                    "error", metrics.LaplacianVar, T.MaxLaplacianVariance)))
     \o When(metrics.Overexposed,
            QualityIssue("overexposure",
                "Image has too much light. Move to a less bright area.",
                "error", 0, 0))
     \o When(metrics.Oversaturated,
            QualityIssue("oversaturation",
                "Colors are too strong. Use normal light while clicking.",
                "error", 0, 0))
     \o When(metrics.IncorrectWB,
            QualityIssue("white_balance",
                "Colors in the photo don't look natural. Use normal lighting.",
                "warning", 0, 0))
     \o (IF metrics.AvgLuminance <= T.MinLuminance
         THEN <<QualityIssue("low_luminance",
                    "Image is very dull. Use more light.",
                    "error", metrics.AvgLuminance, T.MinLuminance)>>
         ELSE When(metrics.AvgLuminance >= T.MaxLuminance,
                QualityIssue("high_luminance",
                    "Image is too bright. Take it in normal light.",
                    "error", metrics.AvgLuminance, T.MaxLuminance)))
     \o When(metrics.AvgSaturation <= T.MinSaturation,
            QualityIssue("low_saturation",
                "Image looks faded. Use proper lighting.",
                "warning", metrics.AvgSaturation, T.MinSaturation))
     \o When(\/ Abs(channels[1] - channels[2]) >= T.MaxChannelImbalance
             \/ Abs(channels[1] - channels[3]) >= T.MaxChannelImbalance
             \/ Abs(channels[2] - channels[3]) >= T.MaxChannelImbalance,
            QualityIssue("channel_imbalance",
                "Colors look odd. Don't use filters or colored lights.",
                "warning", 0, T.MaxChannelImbalance))

\* the sequence without its i-th element: append(issues[:i], issues[i+1:]...)
RemoveAt(issues, i) ==
    SubSeq(issues, 1, i - 1) \o SubSeq(issues, i + 1, Len(issues))

\* an OCR blur issue for every variance at or under the OCR minimum, whether
\* or not the basic validation left one
BlurIssueAddedAlways(qv, metrics, foundBlurrinessIssue) ==
    metrics.LaplacianVar <= qv.thresholds.MinLaplacianVarianceForOCR

\* line 265: the condition under which ValidateOCRQuality appends its own
\* blurriness issue
BlurIssueAdded(qv, metrics, foundBlurrinessIssue) ==
    /\ ~foundBlurrinessIssue
    /\ metrics.LaplacianVar <= qv.thresholds.MinLaplacianVarianceForOCR
    /\ metrics.LaplacianVar > qv.thresholds.MinLaplacianVariance

\* a resolution check that looks at the sides only
ResolutionTooLowBySides(qv, metrics) ==
    \/ metrics.Width < qv.thresholds.MinWidth
    \/ metrics.Height < qv.thresholds.MinHeight

\* lines 278-281: the resolution check
ResolutionTooLow(qv, metrics) ==
    \/ metrics.Width * metrics.Height < qv.thresholds.MinTotalPixels
    \/ metrics.Width < qv.thresholds.MinWidth
    \/ metrics.Height < qv.thresholds.MinHeight

ValidateOCRQuality(qv, metrics) ==
    LET T == qv.thresholds
        basic == ValidateBasicQuality(qv, metrics)
        blurAt == {i \in 1..Len(basic) : basic[i].Type = "blurriness"}
        foundBlurrinessIssue == blurAt # {}
        last == CHOOSE i \in blurAt : \A k \in blurAt : k <= i
        overridden ==
            IF ~foundBlurrinessIssue THEN basic
            ELSE IF metrics.LaplacianVar <= T.MinLaplacianVarianceForOCR
                 THEN [basic EXCEPT ![last].Threshold =
                                        T.MinLaplacianVarianceForOCR]
                 ELSE RemoveAt(basic, last)
        totalPixels == metrics.Width * metrics.Height
    IN  overridden
     \o When(BlurIssueAdded(qv, metrics, foundBlurrinessIssue),
            QualityIssue("blurriness",
                "Image is blurry for OCR analysis. Please hold the camera steady and try again.",
                "error", metrics.LaplacianVar, T.MinLaplacianVarianceForOCR))
     \o When(ResolutionTooLow(qv, metrics),
            QualityIssue("low_resolution",
                "Image is too small or unclear. Please take a clearer photo.",
                "error", totalPixels, T.MinTotalPixels))
     \o When(metrics.IsTooDark,
            QualityIssue("too_dark",
                "Image is too dark. Take the photo in more light.",
                "error", metrics.Brightness, T.MinBrightness))
     \o When(metrics.IsTooBright,
            QualityIssue("too_bright",
                "Image is too bright. Avoid strong sunlight or flash.",
                "error", metrics.Brightness, T.MaxBrightness))
     \o When(metrics.SkewAngle # <<>>
                /\ Abs(metrics.SkewAngle[1]) > T.MaxSkewAngle,
            QualityIssue("skew",
                "Image is tilted. Hold the phone straight while clicking.",
                "warning", Abs(metrics.SkewAngle[1]), T.MaxSkewAngle))
     \o When(~metrics.HasDocumentEdges,
            QualityIssue("document_edges",
                "Full paper is not visible. Make sure all corners are inside the photo.",
                "error", 0, 0))

ConvertIssuesToMessages(issues) ==
    [i \in 1..Len(issues) |-> issues[i].Message]

HasCriticalIssues(issues) ==
    \E i \in 1..Len(issues) : issues[i].Severity = "error"

\* ------------------------------------------------ calls on the validator
\* the threshold sets a validator is built with
ThresholdSets == {DefaultQualityThresholds, CustomThresholds, AreaThresholds}

\* Laplacian variances around the minima and the maximum of the defaults
LaplacianVars == {0, 50, 100, 300, 500, 501, 2000}

\* colour measurements: that of the tests (luminance 0.5, saturation 0.3,
\* channels 0.33/0.33/0.34), a dark, a washed-out, a vivid, a tinted and a
\* faded picture
Looks ==
    {[AvgLuminance |-> 50, AvgSaturation |-> 30,
      ChannelBalance |-> <<33, 33, 34>>,
      Overexposed |-> FALSE, Oversaturated |-> FALSE, IncorrectWB |-> FALSE],
     [AvgLuminance |-> 10, AvgSaturation |-> 30,
      ChannelBalance |-> <<33, 33, 34>>,
      Overexposed |-> FALSE, Oversaturated |-> FALSE, IncorrectWB |-> FALSE],
     [AvgLuminance |-> 96, AvgSaturation |-> 3,
      ChannelBalance |-> <<33, 33, 34>>,
      Overexposed |-> TRUE, Oversaturated |-> FALSE, IncorrectWB |-> FALSE],
     [AvgLuminance |-> 50, AvgSaturation |-> 95,
      ChannelBalance |-> <<33, 33, 34>>,
      Overexposed |-> FALSE, Oversaturated |-> TRUE, IncorrectWB |-> FALSE],
     [AvgLuminance |-> 50, AvgSaturation |-> 30,
      ChannelBalance |-> <<80, 10, 10>>,
      Overexposed |-> FALSE, Oversaturated |-> FALSE, IncorrectWB |-> TRUE],
     [AvgLuminance |-> 50, AvgSaturation |-> 3,
      ChannelBalance |-> <<33, 33, 34>>,
      Overexposed |-> FALSE, Oversaturated |-> FALSE, IncorrectWB |-> FALSE]}

\* width and height: unset, those of TestValidateOCRQuality_LowResolution,
\* wide sides with a small area, and those of the high-quality tests
Sizes == {<<0, 0>>, <<400, 600>>, <<900, 800>>, <<1920, 1080>>}

\* brightness with the flags performEnhancedQualityChecks derives from it
Brightnesses ==
    {[Brightness |-> 40, IsTooDark |-> TRUE, IsTooBright |-> FALSE],
     [Brightness |-> 150, IsTooDark |-> FALSE, IsTooBright |-> FALSE],
     [Brightness |-> 240, IsTooDark |-> FALSE, IsTooBright |-> TRUE]}

\* the skew angle: nil, or a pointer to an angle
SkewAngles == {<<>>, <<2>>, <<-10>>}

\* validation.ImageQualityMetrics values
MetricsInputs ==
    {[Width |-> size[1], Height |-> size[2], LaplacianVar |-> lap,
      Brightness |-> b.Brightness,
      AvgLuminance |-> look.AvgLuminance,
      AvgSaturation |-> look.AvgSaturation,
      ChannelBalance |-> look.ChannelBalance,
      Overexposed |-> look.Overexposed,
      Oversaturated |-> look.Oversaturated,
      IncorrectWB |-> look.IncorrectWB,
      IsTooDark |-> b.IsTooDark, IsTooBright |-> b.IsTooBright,
      IsSkewed |-> skew # <<>> /\ Abs(skew[1]) > 5,
      HasDocumentEdges |-> edges, SkewAngle |-> skew] :
        size \in Sizes, lap \in LaplacianVars, b \in Brightnesses,
        look \in Looks, skew \in SkewAngles, edges \in BOOLEAN}

\* ------------------------------------------------------ MetricsCalculator
\* Pictures have the bounds image.Rect(0, 0, Width, Height) and 8-bit
\* channels.  A float64 is carried as an exact quotient num/den, or as NaN.

\* the largest width and height of a picture
MaxSide == 7

\* what a picture shows: the uniform gray and the pure red of the tests, a
\* black and a white half, and two horizontal gradients
Patterns == {"gray", "red", "halves", "faint", "ramp"}

Pictures ==
    {[Width |-> w, Height |-> h, Pattern |-> p] :
        w \in 0..MaxSide, h \in 0..MaxSide, p \in Patterns}

InBounds(pic, x, y) ==
    x >= 0 /\ x < pic.Width /\ y >= 0 /\ y < pic.Height

\* img.At(x, y): red, green and blue
At(pic, x, y) ==
    IF ~InBounds(pic, x, y) THEN <<0, 0, 0>>
    ELSE CASE pic.Pattern = "gray" -> <<128, 128, 128>>
           [] pic.Pattern = "red" -> <<255, 0, 0>>
           [] pic.Pattern = "halves" ->
                IF x < pic.Width \div 2 THEN <<0, 0, 0>>
                ELSE <<255, 255, 255>>
           [] pic.Pattern = "faint" -> <<6 * x, 6 * x, 6 * x>>
           [] pic.Pattern = "ramp" -> <<7 * x, 7 * x, 7 * x>>

\* color.RGBA.RGBA() of an opaque colour: the 16-bit channels
RGBA(c) == <<c[1] * 257, c[2] * 257, c[3] * 257>>

\* color.GrayModel.Convert, applied by draw.Draw to every pixel:
\* (19595*r + 38470*g + 7471*b + 1<<15) >> 24 on the 16-bit channels, which
\* are 257 times the 8-bit ones.  The sum needs 32 unsigned bits, so the
\* weighted 8-bit sum is split at 2^16 before it is multiplied by 257.
GrayModel(c) ==
    LET sum == 19595 * c[1] + 38470 * c[2] + 7471 * c[3]
        high == sum \div 65536
        low == sum % 65536
    IN (257 * high + (257 * low + 32768) \div 65536) \div 256

\* gray.GrayAt(x, y).Y of the gray picture drawn from pic; a point outside
\* the bounds reads as color.Gray{}
GrayAt(pic, x, y) ==
    IF InBounds(pic, x, y) THEN GrayModel(At(pic, x, y)) ELSE 0

\* the points visited by  for y := 1; y < height-1  /  for x := 1; x < width-1
Interior(pic) ==
    {<<x, y>> : x \in 1..(pic.Width - 2), y \in 1..(pic.Height - 2)}

calculateSobelX(pic, x, y) ==
    - GrayAt(pic, x - 1, y - 1) + GrayAt(pic, x + 1, y - 1)
    - 2 * GrayAt(pic, x - 1, y) + 2 * GrayAt(pic, x + 1, y)
    - GrayAt(pic, x - 1, y + 1) + GrayAt(pic, x + 1, y + 1)

calculateSobelY(pic, x, y) ==
    - GrayAt(pic, x - 1, y - 1) - 2 * GrayAt(pic, x, y - 1)
    - GrayAt(pic, x + 1, y - 1)
    + GrayAt(pic, x - 1, y + 1) + 2 * GrayAt(pic, x, y + 1)
    + GrayAt(pic, x + 1, y + 1)

\* the points DetectSkew collects: math.Sqrt(float64(gx*gx + gy*gy)) > 50
EdgePoints(pic) ==
    {p \in Interior(pic) :
        calculateSobelX(pic, p[1], p[2]) * calculateSobelX(pic, p[1], p[2])
          + calculateSobelY(pic, p[1], p[2]) * calculateSobelY(pic, p[1], p[2])
          > 50 * 50}

\* the sum of the values of a function
RECURSIVE SumFn(_)
SumFn(f) ==
    IF DOMAIN f = {} THEN 0
    ELSE LET k == CHOOSE k \in DOMAIN f : TRUE
         IN f[k] + SumFn([j \in DOMAIN f \ {k} |-> f[j]])

\* an angle in degrees: atan(tan[1] / tan[2]) + shift
Angle(num, den, shift) == [tan |-> <<num, den>>, shift |-> shift]

\* calculateSkewAngle on the collected points.  With n points the sums are
\* taken over n*x - sum(x) and n*y - sum(y), which leaves the slope as it is.
calculateSkewAngle(points) ==
    LET n == Cardinality(points)
        sumX == SumFn([p \in points |-> p[1]])
        sumY == SumFn([p \in points |-> p[2]])
        sumXY == SumFn([p \in points |->
                          (n * p[1] - sumX) * (n * p[2] - sumY)])
        sumX2 == SumFn([p \in points |->
                          (n * p[1] - sumX) * (n * p[1] - sumX)])
    IN IF n < 2 \/ sumX2 = 0 THEN Angle(0, 1, 0)
       ELSE IF sumXY > sumX2 THEN Angle(sumXY, sumX2, -90)
       ELSE IF sumXY < -sumX2 THEN Angle(sumXY, sumX2, 90)
       ELSE Angle(sumXY, sumX2, 0)

\* a DetectSkew that gives up only when there is no edge point at all
NoEdgePoints(n) == n = 0

\* DetectSkew, line 260: len(xCoords) < 10
TooFewEdgePoints(n) == n < 10

\* DetectSkew: nil, or a pointer to the angle
DetectSkew(pic) ==
    IF TooFewEdgePoints(Cardinality(EdgePoints(pic))) THEN <<>>
    ELSE <<calculateSkewAngle(EdgePoints(pic))>>

Float(num, den) == [nan |-> FALSE, num |-> num, den |-> den]

NaN == [nan |-> TRUE, num |-> 0, den |-> 1]

Zero == Float(0, 1)

\* a / b in float64: no fault when b is zero; the dividends of this model
\* are zero whenever the divisor is, and 0/0 is NaN
FloatDiv(a, b) == IF b = 0 THEN NaN ELSE Float(a, b)

IsZero(f) == ~f.nan /\ f.num = 0

\* f <= n for a float64 f and a number n: false when f is NaN
LessEq(f, n) == ~f.nan /\ f.num <= n * f.den

\* stat.Variance(data, nil) of gonum: the unbiased sample variance, the sum
\* of the squared deviations from the mean divided by len(data) - 1
Variance(data) ==
    LET n == Cardinality(DOMAIN data)
        sum == SumFn(data)
        squares == SumFn([k \in DOMAIN data |-> data[k] * data[k]])
    IN FloatDiv(n * squares - sum * sum, n * (n - 1))

CalculateLaplacianVariance(pic) ==
    LET data == [p \in Interior(pic) |->
                    - 4 * GrayAt(pic, p[1], p[2])
                    + GrayAt(pic, p[1], p[2] - 1) + GrayAt(pic, p[1], p[2] + 1)
                    + GrayAt(pic, p[1] - 1, p[2]) + GrayAt(pic, p[1] + 1, p[2])]
    IN IF Interior(pic) = {} THEN Zero ELSE Variance(data)

\* an emptiness test that never finds a picture empty
EmptyImageUnchecked(width, height) == FALSE

\* if width == 0 || height == 0
EmptyImage(width, height) == width = 0 \/ height = 0

\* CalculateBrightness; the pictures of this model have fewer than 100000
\* pixels and take calculateBrightnessSequential
CalculateBrightness(pic) ==
    IF EmptyImage(pic.Width, pic.Height) THEN Zero
    ELSE FloatDiv(SumFn([p \in (0..(pic.Width - 1)) \X (0..(pic.Height - 1))
                            |-> GrayAt(pic, p[1], p[2])]),
                  pic.Width * pic.Height)

\* rgbToHSV on 16-bit channels: the value max, and the saturation
\* delta / max in 65535ths; both are multiples of 257, taken out before the
\* multiplication
rgbToHSV(r, g, b) ==
    LET max == Max2(r, Max2(g, b))
        min == Min2(r, Min2(g, b))
    IN [s |-> IF max = 0 THEN 0
              ELSE (((max - min) \div 257) * 65535) \div (max \div 257),
        v |-> max]

\* metrics{}
ZeroMetrics ==
    [avgLuminance |-> Zero, avgSaturation |-> Zero,
     avgR |-> Zero, avgG |-> Zero, avgB |-> Zero]

\* regionResult{}
ZeroRegion ==
    [lum |-> 0, sat |-> 0, r |-> 0, g |-> 0, b |-> 0, pixelCount |-> 0]

\* CalculateBasicMetrics, lines 40-46: the number of strip workers on a
\* host with cpus CPUs
BasicWorkers(height, cpus) ==
    IF height < cpus THEN (IF height = 0 THEN 1 ELSE height) ELSE cpus

\* CalculateBrightness, lines 178-184
BrightnessWorkers(height, cpus) ==
    LET numWorkers == IF height < cpus THEN height ELSE cpus
    IN IF numWorkers <= 0 THEN 1 ELSE numWorkers

NumStripWorkers(height) == BasicWorkers(height, NumCPU)

\* lines 47 and 185: (height + numWorkers - 1) / numWorkers
RowsPerWorker(height, numWorkers) ==
    (height + numWorkers - 1) \div numWorkers

\* a loop that visits the rows startY <= y <= endY below maxY
RowLoopInclusive(startY, endY, maxY) ==
    {y \in startY..endY : y < maxY}

\* lines 71 and 200: for y := startY; y < endY && y < bounds.Max.Y; y++
RowLoop(startY, endY, maxY) ==
    {y \in startY..(endY - 1) : y < maxY}

\* lines 59-64 and 193-198: the rows of strip worker i (the first worker is
\* worker 0) of numWorkers on a picture whose rows are minY..minY+height-1
StripOf(minY, height, numWorkers, i) ==
    LET rowsPerWorker == RowsPerWorker(height, numWorkers)
        maxY == minY + height
        startY == minY + i * rowsPerWorker
        endY == IF i = numWorkers - 1 \/ startY + rowsPerWorker > maxY
                THEN maxY ELSE startY + rowsPerWorker
    IN RowLoop(startY, endY, maxY)

\* the rows of strip worker i of CalculateBasicMetrics on a picture whose
\* bounds start at (0, 0)
StripRows(pic, i) ==
    StripOf(0, pic.Height, NumStripWorkers(pic.Height), i)

\* what strip worker i sends: the sums over its rows, in 65535ths
Region(pic, i) ==
    LET pixels == (0..(pic.Width - 1)) \X StripRows(pic, i)
        rgba(p) == RGBA(At(pic, p[1], p[2]))
        hsv(p) == rgbToHSV(rgba(p)[1], rgba(p)[2], rgba(p)[3])
    IN [lum |-> SumFn([p \in pixels |-> hsv(p).v]),
        sat |-> SumFn([p \in pixels |-> hsv(p).s]),
        r |-> SumFn([p \in pixels |-> rgba(p)[1]]),
        g |-> SumFn([p \in pixels |-> rgba(p)[2]]),
        b |-> SumFn([p \in pixels |-> rgba(p)[3]]),
        pixelCount |-> Cardinality(pixels)]

\* lines 103-108: one received regionResult added to the totals
AddRegion(total, result) ==
    [lum |-> total.lum + result.lum, sat |-> total.sat + result.sat,
     r |-> total.r + result.r, g |-> total.g + result.g,
     b |-> total.b + result.b,
     pixelCount |-> total.pixelCount + result.pixelCount]

\* lines 112-123: the averages over the pixels, each channel sum being in
\* 65535ths
Averages(total) ==
    IF total.pixelCount = 0 THEN ZeroMetrics
    ELSE [avgLuminance |-> FloatDiv(total.lum, 65535 * total.pixelCount),
          avgSaturation |-> FloatDiv(total.sat, 65535 * total.pixelCount),
          avgR |-> FloatDiv(total.r, 65535 * total.pixelCount),
          avgG |-> FloatDiv(total.g, 65535 * total.pixelCount),
          avgB |-> FloatDiv(total.b, 65535 * total.pixelCount)]

\* ----------------------------------------------------------- coreAnalyzer
\* AnalysisResult{}: the zero value
ZeroResult ==
    [Quality |-> [Overexposed |-> FALSE, Oversaturated |-> FALSE,
                  IncorrectWB |-> FALSE, Blurry |-> FALSE, IsValid |-> FALSE,
                  IsLowResolution |-> FALSE, IsTooDark |-> FALSE,
                  IsTooBright |-> FALSE, IsSkewed |-> FALSE,
                  HasDocumentEdges |-> FALSE, QRDetected |-> FALSE,
                  SkewAngle |-> Nil],
     Metrics |-> [LaplacianVar |-> 0, AvgLuminance |-> 0, AvgSaturation |-> 0,
                  ChannelBalance |-> <<0, 0, 0>>, Resolution |-> <<>>,
                  Brightness |-> 0, NumContours |-> 0],
     OCRResult |-> Nil,
     Errors |-> [arr |-> Nil, len |-> 0]]

\* models.OCRResult{}
ZeroOCRResult ==
    [ExtractedText |-> "", ExpectedText |-> "", Confidence |-> 0,
     MatchScore |-> 0, WER |-> 0, CER |-> 0, OCRError |-> ""]

\* &image.Gray{}: what grayPool.New makes, and a buffer after lines 77-79.
\* Pix names the picture the pixels hold, PixLen is len(gray.Pix)
ZeroGray == [Pix |-> "", PixLen |-> 0, Width |-> 0, Height |-> 0]

\* image.NewGray(bounds) with img drawn into it
NewGray(img) ==
    [Pix |-> img, PixLen |-> Measure(img).Width * Measure(img).Height,
     Width |-> Measure(img).Width, Height |-> Measure(img).Height]

\* a Get that hands the object out and leaves it in the pool as well
GetLeavesPooled(pool, x) == pool

\* sync.Pool.Get: the pool after it handed out x (x is a pooled object, or
\* a new object, which was never in the pool)
Get(pool, x) == pool \ {x}

\* a caller that is not inside AnalyzeWithOptions
IdleCall == [pc |-> "idle"]

\* store v at index i of a table of objects, i being an existing object or
\* the next one to allocate
Store(table, i, v) ==
    IF i <= Len(table) THEN [table EXCEPT ![i] = v] ELSE Append(table, v)

\* a reset that clears the fields in place and keeps the OCRResult object
ResetResultInPlace(old) == [ZeroResult EXCEPT !.OCRResult = old.OCRResult]

\* *result = AnalysisResult{}
ResetResult(old) == ZeroResult

\* NewImageAnalyzer: NewWorkerPool(0), workerPool.Start(), two empty pools
InitScratch ==
    /\ resultPool = {}
    /\ results = <<>>
    /\ grayPool = {}
    /\ grays = <<>>
    /\ ocrHeap = <<>>
    /\ floatHeap = <<>>
    /\ strHeap = <<>>
    /\ acall = [c \in Clients |-> IdleCall]
    /\ ret = [c \in Clients |-> <<>>]
    /\ snap = [c \in Clients |-> <<>>]
    /\ analyses = 0

\* no validation called from outside the analyzer
NoValidation == [fn |-> "none"]

\* no measurement called from outside the analyzer
NoMeasurement == [fn |-> "none"]

\* a caller that holds no AnalysisOptions value
NoOptions == [locs |-> <<>>]

\* NewImageAnalyzer: its validator is NewQualityValidator()
InitAnalyzer ==
    /\ InitScratch
    /\ qualityValidator = NewQualityValidator
    /\ qcall = NoValidation
    /\ mcall = NoMeasurement
    /\ optcall = NoOptions
    /\ memPools = NewMemoryPools

NewImageAnalyzer == PoolAfter(0, 0, TRUE) /\ InitAnalyzer

hasWhiteBalanceIssue(avgR, avgG, avgB) ==
    LET maxDiff == Max2(Abs(avgR - avgG),
                        Max2(Abs(avgR - avgB), Abs(avgG - avgB)))
    IN maxDiff > 10

\* AnalyzeWithOptions from CalculateBasicMetrics to the QR detection: the
\* scratch result with the basic metrics and raw flags filled in
BasicChecks(result, options, img, gray) ==
    LET metrics == Measure(img)
        laplacianVar == Measure(gray.Pix).LaplacianVar
    IN [result EXCEPT
            !.Metrics.AvgLuminance = metrics.AvgLuminance,
            !.Metrics.AvgSaturation = metrics.AvgSaturation,
            !.Metrics.ChannelBalance = metrics.Channels,
            !.Metrics.LaplacianVar = laplacianVar,
            !.Quality.Blurry = laplacianVar <= options.BlurThreshold,
            !.Quality.Overexposed =
                metrics.AvgLuminance > options.OverexposureThreshold,
            !.Quality.Oversaturated =
                metrics.AvgSaturation > options.OversaturationThreshold,
            !.Quality.IncorrectWB =
                IF ~options.SkipWhiteBalance
                THEN hasWhiteBalanceIssue(metrics.Channels[1],
                                          metrics.Channels[2],
                                          metrics.Channels[3])
                ELSE @,
            !.Quality.QRDetected =
                IF ~options.SkipQRDetection THEN metrics.QR ELSE @]

\* performEnhancedQualityChecks; skewAngle is the pointer DetectSkew returned
performEnhancedQualityChecks(result, options, gray, skewAngle) ==
    LET seen == Measure(gray.Pix)
        width == gray.Width
        height == gray.Height
    IN [result EXCEPT
            !.Metrics.Resolution = FormatResolution(width, height),
            !.Quality.IsLowResolution =
                width * height < 800000 \/ width < 800 \/ height < 1000,
            !.Metrics.Brightness = seen.Brightness,
            !.Quality.IsTooDark = seen.Brightness < 80,
            !.Quality.IsTooBright = seen.Brightness > 220,
            !.Quality.SkewAngle = IF skewAngle # Nil THEN skewAngle ELSE @,
            !.Quality.IsSkewed =
                IF skewAngle # Nil
                THEN seen.Skew[1] > 5 \/ seen.Skew[1] < -5
                ELSE @,
            !.Metrics.NumContours =
                IF ~options.SkipContourDetection THEN seen.Contours ELSE @,
            !.Quality.HasDocumentEdges =
                IF ~options.SkipEdgeDetection THEN seen.Edges ELSE @]

\* the validation.ImageQualityMetrics that validateBasicQuality and
\* validateComprehensiveQuality build from the result
QualityMetricsOf(result, floats) ==
    LET size == parseResolution(result.Metrics.Resolution) IN
    [Width |-> size[1], Height |-> size[2],
     LaplacianVar |-> result.Metrics.LaplacianVar,
     Brightness |-> result.Metrics.Brightness,
     AvgLuminance |-> result.Metrics.AvgLuminance,
     AvgSaturation |-> result.Metrics.AvgSaturation,
     ChannelBalance |-> result.Metrics.ChannelBalance,
     Overexposed |-> result.Quality.Overexposed,
     Oversaturated |-> result.Quality.Oversaturated,
     IncorrectWB |-> result.Quality.IncorrectWB,
     IsTooDark |-> result.Quality.IsTooDark,
     IsTooBright |-> result.Quality.IsTooBright,
     IsSkewed |-> result.Quality.IsSkewed,
     HasDocumentEdges |-> result.Quality.HasDocumentEdges,
     SkewAngle |-> IF result.Quality.SkewAngle = Nil THEN <<>>
                   ELSE <<floats[result.Quality.SkewAngle]>>]

\* what a caller reads through an AnalysisResult value: its fields and the
\* objects its OCRResult, Errors and SkewAngle refer to
DeepIn(result, ocrs, strs, floats) ==
    [fields |-> result,
     OCRResult |-> IF result.OCRResult = Nil THEN <<>>
                   ELSE <<ocrs[result.OCRResult]>>,
     Errors |-> IF result.Errors.arr = Nil THEN <<>>
                ELSE SubSeq(strs[result.Errors.arr], 1, result.Errors.len),
     SkewAngle |-> IF result.Quality.SkewAngle = Nil THEN <<>>
                   ELSE <<floats[result.Quality.SkewAngle]>>]

Deep(result) == DeepIn(result, ocrHeap, strHeap, floatHeap)

\* AnalyzeWithOptions up to draw.Draw (lines 57-83): resultPool.Get(), the
\* reset, the expected text, grayPool.Get() and the gray conversion.
\* sync.Pool.Get hands out a pooled object or a new one.
AnalyzeBegin(c, img, options) ==
    /\ UNCHANGED <<poolVars, restVars, qcall, mcall>>
    /\ acall[c].pc = "idle"
    /\ analyses < MaxAnalyses
    /\ analyses' = analyses + 1
    /\ \E r \in resultPool \cup {Len(results) + 1} :
       \E g \in grayPool \cup {Len(grays) + 1} :
         LET old == IF r <= Len(results) THEN results[r] ELSE ZeroResult
             reset == ResetResult(old)
             wanted == options.OCRExpectedText # ""
             target == IF reset.OCRResult = Nil THEN Len(ocrHeap) + 1
                       ELSE reset.OCRResult
             before == IF reset.OCRResult = Nil THEN ZeroOCRResult
                       ELSE ocrHeap[target]
         IN /\ resultPool' = Get(resultPool, r)
            /\ grayPool' = Get(grayPool, g)
            /\ results' = Store(results, r,
                            IF wanted THEN [reset EXCEPT !.OCRResult = target]
                            ELSE reset)
            /\ ocrHeap' = IF wanted
                          THEN Store(ocrHeap, target,
                                 [before EXCEPT !.ExpectedText =
                                                    options.OCRExpectedText])
                          ELSE ocrHeap
            /\ grays' = Store(grays, g, NewGray(img))
            /\ acall' = [acall EXCEPT ![c] =
                            [pc |-> "grayscale-derived", img |-> img,
                             options |-> options, result |-> r, gray |-> g]]
    /\ UNCHANGED <<floatHeap, strHeap, ret, snap>>

\* lines 85-113 on the scratch result: the basic metrics, the Laplacian
\* variance, the raw flags, the QR detection and, for a comprehensive
\* analysis that is not fast, performEnhancedQualityChecks
Metrics(result, options, img, gray, floats) ==
    LET enhanced == (options.OCRMode \/ options.QualityMode)
                        /\ ~options.FastMode
        r1 == BasicChecks(result, options, img, gray)
        skew == Measure(gray.Pix).Skew
        skewAngle == IF enhanced /\ skew # <<>> THEN Len(floats) + 1 ELSE Nil
    IN [result |-> IF enhanced
                   THEN performEnhancedQualityChecks(r1, options, gray,
                                                     skewAngle)
                   ELSE r1,
        floats |-> IF skewAngle # Nil THEN Append(floats, skew[1])
                   ELSE floats]

\* lines 119-137: the OCR placeholder and finalResult := *result
Assemble(result, options, ocrs) ==
    LET target == IF result.OCRResult = Nil THEN Len(ocrs) + 1
                  ELSE result.OCRResult
        before == IF result.OCRResult = Nil THEN ZeroOCRResult
                  ELSE ocrs[target]
    IN [finalResult |-> IF options.OCRMode
                        THEN [result EXCEPT !.OCRResult = target] ELSE result,
        ocrs |-> IF options.OCRMode
                 THEN Store(ocrs, target,
                        [before EXCEPT
                           !.ExtractedText = "",
                           !.OCRError = "OCR processing not implemented yet",
                           !.WER = 0, !.CER = 0])
                 ELSE ocrs]

\* a rule evaluation that does not wait for the metric computations
RulesReadyEarly(c) ==
    acall[c].pc \in {"grayscale-derived", "metrics-joined"}

\* the rule evaluation of line 110 is reached when lines 85-107 have returned
RulesReady(c) == acall[c].pc = "metrics-joined"

\* AnalyzeWithOptions, lines 85-107 and the enhanced checks of line 112: the
\* metric computations, run one after the other on the caller's goroutine
ComputeMetrics(c) ==
    /\ UNCHANGED <<poolVars, restVars, qcall, mcall>>
    /\ acall[c].pc = "grayscale-derived"
    /\ \E out \in {Metrics(results[acall[c].result], acall[c].options,
                            acall[c].img, grays[acall[c].gray], floatHeap)} :
          /\ results' = [results EXCEPT ![acall[c].result] = out.result]
          /\ floatHeap' = out.floats
    /\ acall' = [acall EXCEPT ![c].pc = "metrics-joined"]
    /\ UNCHANGED <<resultPool, grayPool, grays, ocrHeap, strHeap, ret, snap,
                   analyses>>

\* AnalyzeWithOptions, lines 110-117: validateComprehensiveQuality or
\* validateBasicQuality builds the validator's metrics from the scratch
\* result, runs the rule engine and stores the messages in result.Errors
EvaluateRules(c) ==
    /\ UNCHANGED <<poolVars, restVars, qcall, mcall>>
    /\ RulesReady(c)
    /\ \E metrics \in {QualityMetricsOf(results[acall[c].result], floatHeap)} :
       \E issues \in {IF acall[c].options.OCRMode
                            \/ acall[c].options.QualityMode
                      THEN ValidateOCRQuality(qualityValidator, metrics)
                      ELSE ValidateBasicQuality(qualityValidator,
                                                metrics)} :
       \E messages \in {ConvertIssuesToMessages(issues)} :
          /\ results' = [results EXCEPT ![acall[c].result].Errors =
                          IF messages = <<>> THEN [arr |-> Nil, len |-> 0]
                          ELSE [arr |-> Len(strHeap) + 1,
                                len |-> Len(messages)]]
          /\ strHeap' = IF messages = <<>> THEN strHeap
                        ELSE Append(strHeap, messages)
          /\ acall' = [acall EXCEPT ![c] =
                          [pc |-> "rules-evaluated", img |-> @.img,
                           options |-> @.options, result |-> @.result,
                           gray |-> @.gray,
                           critical |-> HasCriticalIssues(issues)]]
    /\ UNCHANGED <<resultPool, grayPool, grays, ocrHeap, floatHeap, ret, snap,
                   analyses>>

\* AnalyzeWithOptions, lines 119-138: the OCR placeholder, the copy handed
\* to the caller, and the deferred grayPool.Put(gray) and
\* resultPool.Put(result)
AssembleResult(c) ==
    /\ UNCHANGED <<poolVars, restVars, qcall, mcall>>
    /\ acall[c].pc = "rules-evaluated"
    /\ \E out \in {Assemble(results[acall[c].result], acall[c].options,
                             ocrHeap)} :
          /\ ocrHeap' = out.ocrs
          /\ results' = [results EXCEPT ![acall[c].result] = out.finalResult]
          /\ ret' = [ret EXCEPT ![c] = <<out.finalResult>>]
          /\ snap' = [snap EXCEPT ![c] =
                        <<[value |-> DeepIn(out.finalResult, out.ocrs,
                                            strHeap, floatHeap),
                           scratch |-> acall[c].result,
                           critical |-> acall[c].critical]>>]
    /\ resultPool' = resultPool \cup {acall[c].result}
    /\ grayPool' = grayPool \cup {acall[c].gray}
    /\ acall' = [acall EXCEPT ![c] = IdleCall]
    /\ UNCHANGED <<grays, floatHeap, strHeap, analyses>>

\* ------------------------------------------------------------ specification
ClientStep ==
    \E c \in Clients :
        \/ Start(c)
        \/ SubmitEnter(c)
        \/ SubmitSend(c)
        \/ SubmitTimeout(c)
        \/ SubmitDec(c)
        \/ WaitCall(c)
        \/ WaitReturn(c)
        \/ CloseLock(c)
        \/ CloseCritical(c)
        \/ CloseReturn(c)

WorkerStep ==
    \E w \in WorkerIds :
        \/ WorkerTake(w)
        \/ WorkerExit(w)
        \/ WorkerJobReturns(w)
        \/ WorkerJobPanics(w)
        \/ WorkerDone(w)

Init == InitPool /\ InitAnalyzer

Next == ClientStep \/ WorkerStep

Spec == Init /\ [][Next]_vars

\* the pool of internal/analyzer/worker_pool.go
LateClientStep ==
    \E c \in Clients :
        \/ Start(c)
        \/ LateSubmitEnter(c)
        \/ LateSubmitSend(c)
        \/ LateSubmitRegister(c)
        \/ LateSubmitTimeout(c)
        \/ WaitCall(c)
        \/ WaitReturn(c)
        \/ CloseLock(c)
        \/ LateCloseCritical(c)

LateWorkerStep ==
    \E w \in WorkerIds :
        \/ WorkerTake(w)
        \/ WorkerExit(w)
        \/ WorkerJobReturns(w)
        \/ LateWorkerJobPanics(w)
        \/ WorkerDone(w)

NextLate == LateClientStep \/ LateWorkerStep

SpecLate == Init /\ [][NextLate]_vars

\* the same pool with callers that also resize it
ResizeStep ==
    \E c \in Clients :
        \/ \E n \in 0..MaxWorkers : ResizeLock(c, n)
        \/ ResizeCritical(c)

NextResize == Next \/ ResizeStep

SpecResize == Init /\ [][NextResize]_vars

\* callers of one analyzer built by NewImageAnalyzer
AnalyzeStep ==
    \E c \in Clients :
        \/ \E req \in Requests : AnalyzeBegin(c, req.img, req.options)
        \/ ComputeMetrics(c)
        \/ EvaluateRules(c)
        \/ AssembleResult(c)

SpecAnalyze == NewImageAnalyzer /\ [][AnalyzeStep]_vars

\* callers of the analyzer that switch parts of a comprehensive analysis
\* off: AnalyzeWithOCR's options in fast mode, the OCR options with the
\* document-edge detection skipped, and the OCR options as they are
SkippingRequests ==
    {[img |-> "sharp", options |-> WithFastMode(WithOCR(OCROptions, "invoice"))],
     [img |-> "sharp",
      options |-> [WithOCR(OCROptions, "invoice")
                      EXCEPT !.SkipEdgeDetection = TRUE]],
     [img |-> "sharp", options |-> WithOCR(OCROptions, "invoice")]}

SkippingStep ==
    \E c \in Clients :
        \/ \E req \in SkippingRequests :
              AnalyzeBegin(c, req.img, req.options)
        \/ ComputeMetrics(c)
        \/ EvaluateRules(c)
        \/ AssembleResult(c)

SpecSkipping == NewImageAnalyzer /\ [][SkippingStep]_vars

\* one goroutine that calls the analyzer again and again; the scheduler
\* keeps a goroutine that can run running, so a call that can take its next
\* step eventually takes it
Caller == CHOOSE c \in Clients : TRUE

CallerStep ==
    \/ \E req \in Requests : AnalyzeBegin(Caller, req.img, req.options)
    \/ ComputeMetrics(Caller)
    \/ EvaluateRules(Caller)
    \/ AssembleResult(Caller)

SpecCaller ==
    /\ NewImageAnalyzer
    /\ [][CallerStep]_vars
    /\ WF_vars(ComputeMetrics(Caller) \/ EvaluateRules(Caller)
                  \/ AssembleResult(Caller))

\* A pool whose jobs submit further jobs while callers close it.  The run
\* starts from a started pool of one worker with a full queue, or of one
\* worker per CPU with a backlog, and one goroutine closes it.  The
\* scheduler runs every goroutine that can take a step: a worker, the
\* function it runs, a Close in progress.
InitNested ==
    /\ \/ PoolAfter(1, QueueFactor, TRUE)
       \/ PoolAfter(NumCPU, MaxBacklog, TRUE)
    /\ InitAnalyzer

JobStep(w) ==
    \/ WorkerTake(w)
    \/ WorkerExit(w)
    \/ WorkerJobReturns(w)
    \/ WorkerJobPanics(w)
    \/ WorkerDone(w)
    \/ JobSubmitCall(w)
    \/ JobSubmitEnter(w)
    \/ JobSubmitSend(w)
    \/ JobSubmitTimeout(w)

CloseStep(c) ==
    \/ CloseLock(c)
    \/ CloseCritical(c)
    \/ CloseReturn(c)

NestedStep ==
    \/ \E w \in WorkerIds : JobStep(w)
    \/ CloseStep(Caller)

SpecNested ==
    /\ InitNested
    /\ [][NestedStep]_vars
    /\ \A w \in WorkerIds : WF_vars(JobStep(w))
    /\ WF_vars(CloseCritical(Caller) \/ CloseReturn(Caller))

\* a caller that holds one of the preset values and applies builders, with
\* the arguments of the tests, to the values it holds
InitOptions ==
    /\ PoolAfter(0, 0, TRUE)
    /\ InitScratch
    /\ qualityValidator = NewQualityValidator
    /\ qcall = NoValidation
    /\ mcall = NoMeasurement
    /\ memPools = NewMemoryPools
    /\ optcall \in {[locs |-> <<preset>>] :
                     preset \in {DefaultOptions, OCROptions, FastOptions,
                                  QualityOptions}}

OptionsStep ==
    \E i \in 1..(MaxChain + 1) :
        \/ \E text \in {"test text", "sample text"} : WithOCRCall(i, text)
        \/ \E t \in {<<250, 80, 70>>, <<200, 85, 75>>} :
              WithCustomThresholdsCall(i, t)
        \/ WithFastModeCall(i)
        \/ WithoutQRDetectionCall(i)

SpecOptions == InitOptions /\ [][OptionsStep]_vars

\* callers that take slices from the memory pools of one WorkerPool, fill
\* them and put them back
InitBuffers ==
    /\ PoolAfter(0, 0, TRUE)
    /\ InitScratch
    /\ qualityValidator = NewQualityValidator
    /\ qcall = NoValidation
    /\ mcall = NoMeasurement
    /\ optcall = NoOptions
    /\ memPools = NewMemoryPools

BufferStep ==
    \E c \in Clients :
        \/ \E kind \in PoolKinds : GetPooled(c, kind)
        \/ AppendHeld(c)
        \/ GrowHeld(c)
        \/ PutPooled(c)

SpecBuffers == InitBuffers /\ [][BufferStep]_vars

\* a validator built with one of the threshold sets, about to be called on
\* one of the metrics
InitValidate ==
    /\ PoolAfter(0, 0, TRUE)
    /\ InitScratch
    /\ qualityValidator \in
          {NewQualityValidatorWithThresholds(T) : T \in ThresholdSets}
    /\ qcall \in {[fn |-> "none", metrics |-> m] : m \in MetricsInputs}
    /\ mcall = NoMeasurement
    /\ optcall = NoOptions
    /\ memPools = NewMemoryPools

\* qv.ValidateBasicQuality(metrics)
ValidateBasicCall ==
    /\ UNCHANGED <<poolVars, callVars, restVars, mcall>>
    /\ qcall.fn = "none"
    /\ \E issues \in {ValidateBasicQuality(qualityValidator, qcall.metrics)} :
          qcall' = [fn |-> "ValidateBasicQuality", metrics |-> qcall.metrics,
                    issues |-> issues]

\* qv.ValidateOCRQuality(metrics)
ValidateOCRCall ==
    /\ UNCHANGED <<poolVars, callVars, restVars, mcall>>
    /\ qcall.fn = "none"
    /\ \E issues \in {ValidateOCRQuality(qualityValidator, qcall.metrics)} :
          qcall' = [fn |-> "ValidateOCRQuality", metrics |-> qcall.metrics,
                    issues |-> issues]

\* a calculator about to be called on one of the pictures
NewMeasurement(pic) ==
    [fn |-> "none", pic |-> pic, pc |-> "idle", strips |-> <<>>,
     results |-> <<>>, closed |-> FALSE, wg |-> 0, total |-> ZeroRegion,
     out |-> <<>>]

InitMetrics ==
    /\ PoolAfter(0, 0, TRUE)
    /\ InitScratch
    /\ qualityValidator = NewQualityValidator
    /\ qcall = NoValidation
    /\ mcall \in {NewMeasurement(pic) : pic \in Pictures}
    /\ optcall = NoOptions
    /\ memPools = NewMemoryPools

\* a call that runs on the caller's goroutine and returns out
Returned(fn, out) ==
    [mcall EXCEPT !.fn = fn, !.pc = "returned", !.out = <<out>>]

\* omc.DetectSkew(gray)
DetectSkewCall ==
    /\ UNCHANGED <<poolVars, callVars, restVars, qcall>>
    /\ mcall.fn = "none"
    /\ \E out \in {DetectSkew(mcall.pic)} :
          mcall' = Returned("DetectSkew", out)

\* AnalyzeWithOptions, lines 92-93: omc.CalculateLaplacianVariance(gray) and
\* the Blurry flag under the default options
LaplacianCall ==
    /\ UNCHANGED <<poolVars, callVars, restVars, qcall>>
    /\ mcall.fn = "none"
    /\ \E out \in {CalculateLaplacianVariance(mcall.pic)} :
          mcall' = Returned("CalculateLaplacianVariance",
                            [LaplacianVar |-> out,
                             Blurry |-> LessEq(out,
                                           DefaultOptions.BlurThreshold)])

\* omc.CalculateBrightness(gray)
BrightnessCall ==
    /\ UNCHANGED <<poolVars, callVars, restVars, qcall>>
    /\ mcall.fn = "none"
    /\ \E out \in {CalculateBrightness(mcall.pic)} :
          mcall' = Returned("CalculateBrightness", out)

\* omc.CalculateBasicMetrics(img), lines 30-96: the early return for an
\* empty picture, or the launch of the strip workers and of the goroutine
\* that closes the channel
BasicMetricsCall ==
    /\ UNCHANGED <<poolVars, callVars, restVars, qcall>>
    /\ mcall.fn = "none"
    /\ IF EmptyImage(mcall.pic.Width, mcall.pic.Height)
       THEN mcall' = Returned("CalculateBasicMetrics", ZeroMetrics)
       ELSE mcall' = [mcall EXCEPT
                        !.fn = "CalculateBasicMetrics",
                        !.pc = "strips",
                        !.strips = [i \in 1..NumStripWorkers(mcall.pic.Height)
                                      |-> "running"],
                        !.wg = NumStripWorkers(mcall.pic.Height)]

\* a strip worker, lines 65-90: it sums its rows, sends the result on the
\* channel, whose buffer has a place for every worker, and its deferred
\* wg.Done() runs
StripWorker(i) ==
    /\ UNCHANGED <<poolVars, callVars, restVars, qcall>>
    /\ mcall.fn = "CalculateBasicMetrics"
    /\ mcall.pc = "strips"
    /\ i \in DOMAIN mcall.strips
    /\ mcall.strips[i] = "running"
    /\ Len(mcall.results) < Len(mcall.strips)
    /\ \E result \in {Region(mcall.pic, i - 1)} :
          mcall' = [mcall EXCEPT !.results = Append(@, result),
                                 !.strips[i] = "done",
                                 !.wg = @ - 1]

\* lines 93-96: wg.Wait() returns and the channel is closed
CloseResults ==
    /\ UNCHANGED <<poolVars, callVars, restVars, qcall>>
    /\ mcall.fn = "CalculateBasicMetrics"
    /\ mcall.pc = "strips"
    /\ mcall.wg = 0
    /\ ~mcall.closed
    /\ mcall' = [mcall EXCEPT !.closed = TRUE]

\* lines 102-109: the caller receives one result
Aggregate ==
    /\ UNCHANGED <<poolVars, callVars, restVars, qcall>>
    /\ mcall.fn = "CalculateBasicMetrics"
    /\ mcall.pc = "strips"
    /\ mcall.results # <<>>
    /\ mcall' = [mcall EXCEPT !.total = AddRegion(@, Head(mcall.results)),
                              !.results = Tail(@)]

\* lines 102-123: the range loop ends on the closed, drained channel and
\* the averages are returned
BasicMetricsReturn ==
    /\ UNCHANGED <<poolVars, callVars, restVars, qcall>>
    /\ mcall.fn = "CalculateBasicMetrics"
    /\ mcall.pc = "strips"
    /\ mcall.results = <<>>
    /\ mcall.closed
    /\ mcall' = [mcall EXCEPT !.pc = "returned",
                              !.out = <<Averages(mcall.total)>>]

\* ------------------------------------------------------------ row strips
\* The rows each goroutine of CalculateBasicMetrics and CalculateBrightness
\* reads, for a picture given by its bounds only and a host given by its
\* number of CPUs.

\* rows of the tallest picture
MaxHeight == 6
\* CPUs of the largest host
MaxCPUs == 4
\* bounds.Min.Y of a picture that is a sub-image
MaxMinY == 1

\* CalculateBrightness, line 173: pictures below this many pixels are summed
\* on the caller's goroutine
ParallelPixels == 100000

StripFns == {"CalculateBasicMetrics", "CalculateBrightness"}

\* a picture of width x height pixels whose first row is minY, on a host of
\* cpus CPUs; visits counts how often each row has been read
NewLayout(minY, width, height, cpus) ==
    [fn |-> "none", pc |-> "idle", minY |-> minY, width |-> width,
     height |-> height, cpus |-> cpus, parallel |-> FALSE, strips |-> <<>>,
     visits |-> [y \in 0..(MaxMinY + MaxHeight) |-> 0], pixelCount |-> 0]

InitStrips ==
    /\ PoolAfter(0, 0, TRUE)
    /\ InitScratch
    /\ qualityValidator = NewQualityValidator
    /\ qcall = NoValidation
    /\ mcall \in {NewLayout(minY, width, height, cpus) :
                    minY \in 0..MaxMinY, width \in {1, ParallelPixels},
                    height \in 0..MaxHeight, cpus \in 1..MaxCPUs}
    /\ optcall = NoOptions
    /\ memPools = NewMemoryPools

\* lines 30-47 and 163-185: the early return for an empty picture, the
\* sequential path of CalculateBrightness for a small one, or the number of
\* strip workers
StripsCall(fn) ==
    /\ UNCHANGED <<poolVars, callVars, restVars, qcall>>
    /\ mcall.fn = "none"
    /\ IF EmptyImage(mcall.width, mcall.height)
       THEN mcall' = [mcall EXCEPT !.fn = fn, !.pc = "returned"]
       ELSE IF fn = "CalculateBrightness"
               /\ mcall.width * mcall.height < ParallelPixels
       THEN mcall' = [mcall EXCEPT !.fn = fn, !.pc = "strips",
                                   !.strips = <<"running">>]
       ELSE mcall' =
              [mcall EXCEPT
                  !.fn = fn, !.pc = "strips", !.parallel = TRUE,
                  !.strips =
                      [i \in 1..(IF fn = "CalculateBrightness"
                                 THEN BrightnessWorkers(mcall.height,
                                                        mcall.cpus)
                                 ELSE BasicWorkers(mcall.height, mcall.cpus))
                          |-> "running"]]

\* lines 65-90 and 199-208: strip worker i - 1 reads its rows; lines 230-234:
\* calculateBrightnessSequential reads every row
StripRun(i) ==
    /\ UNCHANGED <<poolVars, callVars, restVars, qcall>>
    /\ mcall.fn \in StripFns
    /\ mcall.pc = "strips"
    /\ i \in DOMAIN mcall.strips
    /\ mcall.strips[i] = "running"
    /\ \E rows \in {IF mcall.parallel
                     THEN StripOf(mcall.minY, mcall.height, Len(mcall.strips),
                                  i - 1)
                     ELSE RowLoop(mcall.minY, mcall.minY + mcall.height,
                                  mcall.minY + mcall.height)} :
          mcall' = [mcall EXCEPT
                      !.strips[i] = "done",
                      !.visits = [y \in DOMAIN @ |->
                                    IF y \in rows THEN @[y] + 1 ELSE @[y]],
                      !.pixelCount = @ + mcall.width * Cardinality(rows)]

\* lines 93-123 and 211-220: every worker is done, the results are summed
\* and the call returns
StripsReturn ==
    /\ UNCHANGED <<poolVars, callVars, restVars, qcall>>
    /\ mcall.fn \in StripFns
    /\ mcall.pc = "strips"
    /\ \A i \in DOMAIN mcall.strips : mcall.strips[i] = "done"
    /\ mcall' = [mcall EXCEPT !.pc = "returned"]

StripsStep ==
    \/ \E fn \in StripFns : StripsCall(fn)
    \/ \E i \in 1..MaxCPUs : StripRun(i)
    \/ StripsReturn

SpecStrips == InitStrips /\ [][StripsStep]_vars

\* one call on a metrics calculator
MetricsStep ==
    \/ DetectSkewCall
    \/ LaplacianCall
    \/ BrightnessCall
    \/ BasicMetricsCall
    \/ \E i \in 1..NumCPU : StripWorker(i)
    \/ CloseResults
    \/ Aggregate
    \/ BasicMetricsReturn

SpecMetrics == InitMetrics /\ [][MetricsStep]_vars

\* one call on a validator
ValidateStep == ValidateBasicCall \/ ValidateOCRCall

SpecValidate == InitValidate /\ [][ValidateStep]_vars

\* =================================================================== claims
InQueue(j) == \E i \in 1..Len(jobQueue) : jobQueue[i] = j

Held(j) == \E w \in WorkerIds : wjob[w] = j

LiveWorkers == {w \in WorkerIds : wpc[w] \in {"idle", "running", "signalling"}}

\* C1: when Wait returns, no Submit having been in flight since Wait was
\* called, every job whose Submit returned true has finished executing.
C1_WaitJoinsAcceptedJobs ==
    \A c \in Clients :
        BackFromWait(c) => \A j \in Accepted : Finished(j)

C1_Witness ==
    \E c \in Clients :
        /\ BackFromWait(c)
        /\ submits >= 2
        /\ Cardinality({j \in Accepted : Finished(j)}) >= 2

\* C2 (as claimed): whenever a call to Close has returned, every job whose
\* Submit returned true has finished executing.
C2_EveryCloseReturnsAfterDrain ==
    \A c \in Clients :
        pc[c] = "closed" => \A j \in Accepted : Finished(j)

\* C3: the queue is closed at most once, no call faults, and a Close that
\* finds the pool closed leaves closed flag, queue and counters unchanged.
C3_CloseIdempotent ==
    [][/\ closeCount' <= 1
       /\ fault' = "none"
       /\ closed' = (closeCount' = 1)
       /\ chanClosed' = closed'
       /\ \A c \in Clients :
            (closed /\ pc[c] = "close_lock" /\ pc'[c] # "close_lock") =>
                UNCHANGED <<closed, chanClosed, closeCount, jobQueue, wg,
                            activeWorkers, totalJobs, completedJobs>>]_vars

C3_Witness ==
    /\ closeCount = 1
    /\ Cardinality({c \in Clients : pc[c] = "closed"}) >= 2

\* C4: no submission sends on the closed queue; a submission that starts
\* after the pool was marked closed returns false and is never enqueued; a
\* job is in the queue or run only if its Submit returned true.
C4_NoSendAfterClose ==
    /\ fault # "send on closed channel"
    /\ \A j \in Jobs :
        /\ job[j].late => (job[j].ret = "false" /\ ~InQueue(j) /\ job[j].runs = 0)
        /\ (InQueue(j) \/ Held(j) \/ job[j].runs > 0) => job[j].ret = "true"

C4_Witness ==
    /\ chanClosed
    /\ \E j \in Jobs : job[j].late /\ job[j].ret = "false"
    /\ \E j \in Jobs : job[j].ret = "true" /\ job[j].st = "queued"

C6_PanicRecovered ==
    /\ fault = "none"
    /\ ~chanClosed => Cardinality(LiveWorkers) = spawned
    /\ jobQueue # <<>> => LiveWorkers # {}
    /\ (jobQueue = <<>> /\ \A w \in WorkerIds : wpc[w] \in {"unborn", "idle", "exited"})
          => \A j \in Accepted : Finished(j)

C6_Witness ==
    /\ spawned = 1
    /\ ~chanClosed
    /\ wpc[1] = "running"
    /\ recovered >= 1

\* C7: whatever the number of Start calls, explicit or made by Submit,
\* exactly `workers` worker goroutines have been launched once the pool is
\* started, and none before.
C7_StartLaunchesWorkersOnce ==
    /\ spawned = (IF once THEN workers ELSE 0)
    /\ Cardinality({w \in WorkerIds : wpc[w] # "unborn"}) = spawned

C7_Witness ==
    /\ once
    /\ submits >= 2
    /\ spawned = 2

\* C8: after Wait returns, no Submit having been in flight since Wait was
\* called and no accepted job panicking, GetStats reports TotalJobs and
\* CompletedJobs equal to the number of accepted jobs and ActiveWorkers = 0;
\* rejected submissions are not counted.
C8_StatsAfterWait ==
    \A c \in Clients :
        (BackFromWait(c) /\ recovered = 0) =>
            /\ GetStats.TotalJobs = Cardinality(Accepted)
            /\ GetStats.CompletedJobs = Cardinality(Accepted)
            /\ GetStats.ActiveWorkers = 0

C8_Witness ==
    \E c \in Clients :
        /\ BackFromWait(c)
        /\ recovered = 0
        /\ Cardinality(Accepted) >= 4
        /\ \E j \in Rejected : ~job[j].late

\* the raw quality flags of a result
RawFlagSet(quality) ==
    \/ quality.Overexposed \/ quality.Oversaturated \/ quality.IncorrectWB
    \/ quality.Blurry \/ quality.IsLowResolution \/ quality.IsTooDark
    \/ quality.IsTooBright \/ quality.IsSkewed

\* C9 (as claimed): a result returned by AnalyzeWithOptions has
\* Quality.IsValid = TRUE exactly when none of its raw quality flags is set and
\* the rule engine raised no issue of severity "error".
C9_IsValidMeansNoFlagNoError ==
    \A c \in Clients :
        ret[c] # <<>> =>
            (ret[c][1].Quality.IsValid <=>
                (~RawFlagSet(ret[c][1].Quality) /\ ~snap[c][1].critical))

\* C10: what a caller reads through a returned AnalysisResult (its fields,
\* Errors, OCRResult and SkewAngle) stays what it was when the call returned,
\* whatever calls run later or concurrently on the same analyzer.
C10_ReturnedResultStable ==
    \A c \in Clients :
        ret[c] # <<>> => Deep(ret[c][1]) = snap[c][1].value

C10_Witness ==
    \E c \in Clients : \E d \in Clients \ {c} :
        /\ ret[c] # <<>>
        /\ ret[d] # <<>>
        /\ snap[c][1].scratch = snap[d][1].scratch
        /\ snap[c][1].value # snap[d][1].value
        /\ ret[c][1].OCRResult # Nil
        /\ ret[c][1].Errors.arr # Nil
        /\ ret[c][1].Quality.SkewAngle # Nil
        /\ ret[d][1].OCRResult # Nil

\* the calls that are inside AnalyzeWithOptions
InFlight == {c \in Clients : acall[c].pc # "idle"}

\* the scratch result a call works on, without its OCRResult pointer
Scratch(c) == [results[acall[c].result] EXCEPT !.OCRResult = Nil]

\* C11: a pooled gray buffer and a pooled scratch result are held by at most
\* one call in flight, and are in no pool while held; when a call starts to
\* use them the gray buffer has width*height pixels, those of the call's
\* image, and the scratch result holds no value of an earlier call: every
\* field is zero, and its OCRResult is either nil or an object that holds
\* only the expected text of this call.
C11_PooledObjectsExclusiveAndReset ==
    \A c \in InFlight :
        /\ acall[c].result \notin resultPool
        /\ acall[c].gray \notin grayPool
        /\ \A d \in InFlight \ {c} :
              /\ acall[d].result # acall[c].result
              /\ acall[d].gray # acall[c].gray
        /\ acall[c].pc = "grayscale-derived" =>
              /\ grays[acall[c].gray].Pix = acall[c].img
              /\ grays[acall[c].gray].PixLen =
                    Measure(acall[c].img).Width * Measure(acall[c].img).Height
              /\ Scratch(c) = ZeroResult
              /\ IF acall[c].options.OCRExpectedText = ""
                 THEN results[acall[c].result].OCRResult = Nil
                 ELSE /\ results[acall[c].result].OCRResult # Nil
                      /\ ocrHeap[results[acall[c].result].OCRResult] =
                            [ZeroOCRResult EXCEPT !.ExpectedText =
                                acall[c].options.OCRExpectedText]

\* a call starts on a scratch result and a gray buffer that came back from
\* the pools after an analysis of a picture of another size that left errors,
\* an OCR result and a skew angle in the scratch result
C11_Witness ==
    \E c \in InFlight : \E e \in Clients :
        /\ acall[c].pc = "grayscale-derived"
        /\ ret[e] # <<>>
        /\ snap[e][1].scratch = acall[c].result
        /\ ret[e][1].Errors.arr # Nil
        /\ ret[e][1].OCRResult # Nil
        /\ ret[e][1].Quality.SkewAngle # Nil
        /\ ret[e][1].Metrics.Resolution #
              FormatResolution(Measure(acall[c].img).Width,
                               Measure(acall[c].img).Height)
        /\ acall[c].gray = 1
        /\ Len(grays) = 1
        /\ acall[c].options.OCRExpectedText # ""

\* C12: a call moves from start to grayscale-derived, from there to
\* metrics-joined, then to rules-evaluated, and from there to its return
\* with the assembled result, and makes no other move; the rule engine runs
\* on a scratch result that already holds every metric of the call, and
\* leaves them as they are; and a call that has started returns.
C12_StagesInOrder ==
    /\ [][\A c \in Clients :
            /\ acall'[c].pc # acall[c].pc =>
                  <<acall[c].pc, acall'[c].pc>> \in
                      {<<"idle", "grayscale-derived">>,
                       <<"grayscale-derived", "metrics-joined">>,
                       <<"metrics-joined", "rules-evaluated">>,
                       <<"rules-evaluated", "idle">>}
            /\ acall'[c].pc = "rules-evaluated" /\ acall[c].pc # "rules-evaluated" =>
                  LET before == results[acall[c].result]
                      after == results'[acall[c].result]
                      seen == Measure(acall[c].img)
                      o == acall[c].options
                  IN /\ before.Metrics.LaplacianVar = seen.LaplacianVar
                     /\ before.Metrics.AvgLuminance = seen.AvgLuminance
                     /\ before.Metrics.ChannelBalance = seen.Channels
                     /\ ~o.SkipQRDetection => before.Quality.QRDetected = seen.QR
                     /\ (o.OCRMode \/ o.QualityMode) /\ ~o.FastMode =>
                            /\ before.Metrics.Brightness = seen.Brightness
                            /\ before.Metrics.Resolution # <<>>
                     /\ after.Metrics = before.Metrics
                     /\ after.Quality = before.Quality
            /\ acall[c].pc = "rules-evaluated" /\ acall'[c].pc = "idle" =>
                  /\ ret'[c] # <<>>
                  /\ ret'[c][1].Metrics = results[acall[c].result].Metrics
                  /\ ret'[c][1].Errors = results[acall[c].result].Errors
         ]_vars
    /\ \A c \in Clients : (acall[c].pc # "idle") ~> (acall[c].pc = "idle")

\* a call has returned a result that went through the enhanced checks and
\* the rule engine, and the caller's next call has its rules evaluated
C12_Witness ==
    \E c \in Clients :
        /\ acall[c].pc = "rules-evaluated"
        /\ analyses = 2
        /\ ret[c] # <<>>
        /\ ret[c][1].Metrics.Resolution # <<>>
        /\ ret[c][1].Errors.arr # Nil

\* C17 (as claimed): a result returned under the OCR profile after the
\* enhanced checks ran (it carries an OCRResult and a Resolution) and
\* DetectSkew found no angle (SkewAngle is nil) has Quality.IsSkewed = TRUE.
C17_AbsentSkewTreatedAsSkewed ==
    \A c \in Clients :
        (/\ ret[c] # <<>>
         /\ ret[c][1].OCRResult # Nil
         /\ ret[c][1].Metrics.Resolution # <<>>
         /\ ret[c][1].Quality.SkewAngle = Nil)
        => ret[c][1].Quality.IsSkewed

\* the issues of the given type in the output of the validation
IssuesOfType(type) ==
    {i \in 1..Len(qcall.issues) : qcall.issues[i].Type = type}

\* C13: when Width*Height is below MinTotalPixels, the output of
\* ValidateOCRQuality contains an issue of type "low_resolution" with
\* severity "error", whatever the other fields of the metrics.
C13_LowResolutionReported ==
    (/\ qcall.fn = "ValidateOCRQuality"
     /\ qcall.metrics.Width * qcall.metrics.Height
            < qualityValidator.thresholds.MinTotalPixels)
    => \E i \in IssuesOfType("low_resolution") :
            qcall.issues[i].Severity = "error"

\* a picture whose sides pass and whose area does not, validated together
\* with other findings
C13_Witness ==
    /\ qcall.fn = "ValidateOCRQuality"
    /\ qcall.metrics.Width >= qualityValidator.thresholds.MinWidth
    /\ qcall.metrics.Height >= qualityValidator.thresholds.MinHeight
    /\ qcall.metrics.Width * qcall.metrics.Height
            < qualityValidator.thresholds.MinTotalPixels
    /\ qcall.metrics.Width > 0
    /\ IssuesOfType("low_resolution") # {}
    /\ IssuesOfType("blurriness") # {}
    /\ Len(qcall.issues) >= 4

\* C14 (as claimed): when LaplacianVar is below MinLaplacianVariance,
\* ValidateBasicQuality returns a "blurriness" issue with severity "error"
\* and ActualValue equal to LaplacianVar, whatever the luminance and the
\* channel balance.
C14_BlurBelowMinimumReported ==
    (/\ qcall.fn = "ValidateBasicQuality"
     /\ qcall.metrics.LaplacianVar
            < qualityValidator.thresholds.MinLaplacianVariance)
    => \E i \in IssuesOfType("blurriness") :
            /\ qcall.issues[i].Severity = "error"
            /\ qcall.issues[i].ActualValue = qcall.metrics.LaplacianVar

\* C15: in the output of ValidateBasicQuality and of ValidateOCRQuality no
\* issue type occurs more than once and every severity is "error" or
\* "warning", for every metrics and every threshold set.
C15_IssueTypesUniqueSeveritiesKnown ==
    qcall.fn # "none" =>
        \A i \in 1..Len(qcall.issues) :
            /\ qcall.issues[i].Severity \in {"error", "warning"}
            /\ \A k \in 1..Len(qcall.issues) :
                  qcall.issues[k].Type = qcall.issues[i].Type => k = i

\* an OCR validation that kept the blurriness issue of the basic validation
\* under the OCR threshold and added errors and warnings of its own
C15_Witness ==
    /\ qcall.fn = "ValidateOCRQuality"
    /\ qcall.metrics.LaplacianVar
            <= qualityValidator.thresholds.MinLaplacianVariance
    /\ \E i \in IssuesOfType("blurriness") :
            qcall.issues[i].Threshold =
                qualityValidator.thresholds.MinLaplacianVarianceForOCR
    /\ IssuesOfType("skew") # {}
    /\ IssuesOfType("too_dark") # {}
    /\ IssuesOfType("document_edges") # {}
    /\ Len(qcall.issues) >= 6

\* C16 (as claimed): for thresholds with MinLaplacianVarianceForOCR >=
\* MinLaplacianVariance, the output of ValidateOCRQuality contains a
\* "blurriness" issue with Threshold = MinLaplacianVarianceForOCR exactly when
\* LaplacianVar <= MinLaplacianVarianceForOCR.
C16_OCRBlurExactlyUnderOCRMinimum ==
    (/\ qcall.fn = "ValidateOCRQuality"
     /\ qualityValidator.thresholds.MinLaplacianVarianceForOCR
            >= qualityValidator.thresholds.MinLaplacianVariance)
    => ((\E i \in IssuesOfType("blurriness") :
            qcall.issues[i].Threshold =
                qualityValidator.thresholds.MinLaplacianVarianceForOCR)
        <=> qcall.metrics.LaplacianVar
                <= qualityValidator.thresholds.MinLaplacianVarianceForOCR)

\* the measurement has returned from fn
Measured(fn) == mcall.fn = fn /\ mcall.pc = "returned"

\* the interior pixels of the measured picture whose Sobel gradient
\* magnitude is above 50
StrongGradients ==
    {p \in Interior(mcall.pic) :
        LET gx == calculateSobelX(mcall.pic, p[1], p[2])
            gy == calculateSobelY(mcall.pic, p[1], p[2])
        IN gx * gx + gy * gy > 2500}

\* C18: DetectSkew returns a value whatever the picture: no angle when fewer
\* than 10 interior pixels have a Sobel gradient magnitude above 50, and an
\* angle (between -45 and 45 degrees) when at least 10 have.
C18_SkewAbsentIffFewEdgePoints ==
    Measured("DetectSkew") =>
        /\ Len(mcall.out) = 1
        /\ Cardinality(StrongGradients) < 10 => mcall.out[1] = <<>>
        /\ Cardinality(StrongGradients) >= 10 =>
              /\ Len(mcall.out[1]) = 1
              /\ mcall.out[1][1].shift \in {-90, 0, 90}
              /\ mcall.out[1][1].tan[2] > 0

\* DetectSkew has returned no angle for a picture with nine strong
\* gradients, all its interior pixels
C18_Witness ==
    /\ Measured("DetectSkew")
    /\ Cardinality(StrongGradients) = 9
    /\ StrongGradients = Interior(mcall.pic)
    /\ mcall.out = << <<>> >>

\* C19: for a picture of zero width or zero height CalculateBasicMetrics
\* returns the all-zero metrics at once, with no strip worker launched and
\* nothing on the channel, and CalculateBrightness returns 0 (a number).
C19_EmptyPictureGivesZeroMetrics ==
    (mcall.pic.Width = 0 \/ mcall.pic.Height = 0) =>
        /\ mcall.fn = "CalculateBasicMetrics" =>
              /\ mcall.pc = "returned"
              /\ mcall.out = <<ZeroMetrics>>
              /\ mcall.strips = <<>>
              /\ mcall.results = <<>>
              /\ mcall.wg = 0
        /\ mcall.fn = "CalculateBrightness" =>
              /\ mcall.pc = "returned"
              /\ Len(mcall.out) = 1
              /\ IsZero(mcall.out[1])

\* CalculateBasicMetrics has returned for a picture that is wide but has
\* no rows
C19_Witness ==
    /\ Measured("CalculateBasicMetrics")
    /\ mcall.pic.Width > 0
    /\ mcall.pic.Height = 0
    /\ mcall.out = <<ZeroMetrics>>

\* C20: for a picture of one colour, of any width and height,
\* CalculateLaplacianVariance returns 0 and the analysis sets Blurry under
\* the default thresholds.
C20_UniformPictureIsBlurry ==
    (Measured("CalculateLaplacianVariance")
        /\ mcall.pic.Pattern \in {"gray", "red"}) =>
        /\ IsZero(mcall.out[1].LaplacianVar)
        /\ mcall.out[1].Blurry

\* the fields each builder assigns
Owned(builder) ==
    CASE builder = "WithOCR" -> {"OCRMode", "OCRExpectedText", "QualityMode"}
      [] builder = "WithCustomThresholds" ->
            {"BlurThreshold", "OverexposureThreshold",
             "OversaturationThreshold"}
      [] builder = "WithFastMode" ->
            {"FastMode", "QualityMode", "SkipContourDetection",
             "SkipEdgeDetection"}
      [] builder = "WithoutQRDetection" -> {"SkipQRDetection"}

\* C21: a builder call returns a value of its own and leaves every value the
\* caller already holds, the receiver included, as it was; the returned value
\* differs from the receiver only in the fields the builder assigns.
C21_BuildersCopyTheReceiver ==
    [][/\ \A i \in 1..Len(optcall.locs) : optcall'.locs[i] = optcall.locs[i]
       /\ optcall'.result = Len(optcall.locs) + 1
       /\ \A f \in DOMAIN DefaultOptions \ Owned(optcall'.builder) :
            optcall'.locs[optcall'.result][f]
                = optcall.locs[optcall'.receiver][f]]_optcall

\* the chain DefaultOptions().WithOCR("sample text").
\* WithCustomThresholds(200, 0.85, 0.75).WithoutQRDetection() has been made
C21_Witness ==
    /\ Len(optcall.locs) = 4
    /\ optcall.locs[1] = DefaultOptions
    /\ optcall.builder = "WithoutQRDetection"
    /\ optcall.receiver = 3
    /\ optcall.locs[4].OCRMode
    /\ optcall.locs[4].OCRExpectedText = "sample text"
    /\ optcall.locs[4].BlurThreshold = 200
    /\ optcall.locs[4].SkipQRDetection
    /\ ~optcall.locs[1].SkipQRDetection

\* the cells of the backing array of slice s, reachable through s[:cap(s)]
Cells(s) == memPools.arrays[s.array].data

\* C22 (as claimed): a slice in a pool, and so a slice a Get hands out, has
\* length 0 and a backing array in which no cell holds what a previous
\* holder wrote.
C22_PooledSlicesAreCleared ==
    \A kind \in PoolKinds : \A s \in memPools.pool[kind] :
        /\ s.len = 0
        /\ \A i \in 1..MaxFill : Cells(s)[i] = Nothing

\* the steps of a job's life: a submission is accepted into the queue or
\* rejected, a queued job is run, a running job ends
JobSteps ==
    {<<"none", "submitting">>, <<"none", "rejected">>,
     <<"submitting", "queued">>, <<"submitting", "rejected">>,
     <<"queued", "running">>, <<"running", "finished">>}

\* C23: a job moves queued -> running -> ended (completed or recovered) and
\* nowhere else; it is run at most once and held by at most one worker, by
\* exactly one while it runs; a job whose Submit returned false is never
\* run; the ended jobs are the completed and the recovered ones; and once
\* the queue is empty and the workers are idle every accepted job has been
\* run exactly once.
C23_AcceptedJobRunsOnce ==
    /\ [](\A j \in Jobs :
            /\ job[j].runs <= 1
            /\ Cardinality({w \in WorkerIds : wjob[w] = j}) <= 1
            /\ job[j].st = "running" =>
                  \E w \in WorkerIds : wjob[w] = j /\ wpc[w] = "running"
            /\ job[j].st \in {"running", "finished"} =>
                  job[j].runs = 1 /\ job[j].ret = "true"
            /\ job[j].st \in {"none", "submitting", "queued", "rejected"} =>
                  job[j].runs = 0
            /\ job[j].ret = "false" => job[j].runs = 0)
    /\ [](Cardinality({j \in Jobs : job[j].st = "finished"})
            = completedJobs + recovered)
    /\ []((jobQueue = <<>>
             /\ \A w \in WorkerIds : wpc[w] \in {"unborn", "idle", "exited"})
            => \A j \in Jobs : job[j].ret = "true" => job[j].runs = 1)
    /\ [][\A j \in Jobs :
            job'[j].st # job[j].st =>
                <<job[j].st, job'[j].st>> \in JobSteps]_vars

\* one job completed, one ended in a recovered panic, one was rejected on
\* the full queue, and the workers are idle
C23_Witness ==
    /\ jobQueue = <<>>
    /\ \A w \in WorkerIds : wpc[w] \in {"unborn", "idle", "exited"}
    /\ completedJobs >= 1
    /\ recovered >= 1
    /\ \E j \in Jobs : job[j].ret = "false" /\ ~job[j].late
    /\ \A j \in Jobs : job[j].ret = "true" => job[j].runs = 1

\* no job is queued or held by a worker and no submission is in flight
PoolIdle ==
    /\ jobQueue = <<>>
    /\ \A w \in WorkerIds : wpc[w] \in {"unborn", "idle", "exited"}
    /\ \A c \in Clients : ~InSubmit(c)

\* C24: the step in which a job panics decrements ActiveWorkers and leaves
\* CompletedJobs alone, and the worker then signals the join counter once,
\* which never drops below zero; so in an idle pool the join counter is zero
\* with nobody parked in Wait, ActiveWorkers = 0 and CompletedJobs =
\* TotalJobs minus the number of panicked jobs.
C24_PanickedJobSignalsButIsNotCounted ==
    /\ [](wg >= 0 /\ fault = "none")
    /\ [](PoolIdle =>
            /\ wg = 0
            /\ wgWaiters = {}
            /\ GetStats.ActiveWorkers = 0
            /\ GetStats.CompletedJobs = GetStats.TotalJobs - recovered)
    /\ [][recovered' # recovered =>
            /\ recovered' = recovered + 1
            /\ activeWorkers' = activeWorkers - 1
            /\ completedJobs' = completedJobs
            /\ wg' = wg
            /\ \E w \in WorkerIds :
                  wpc[w] = "running" /\ wpc'[w] = "signalling"]_vars
    /\ [][\A w \in WorkerIds :
            (wpc[w] = "signalling" /\ wpc'[w] # "signalling") =>
                wg' = wg - 1]_vars

\* a job panicked, another completed, the pool is idle and a Wait has
\* returned
C24_Witness ==
    /\ PoolIdle
    /\ recovered = 1
    /\ totalJobs >= 2
    /\ completedJobs = totalJobs - 1
    /\ \E c \in Clients : BackFromWait(c)

\* C25: every Close that was called returns, also while the functions the
\* workers run call Submit on the pool.
C25_CloseReturnsDespiteNestedSubmit ==
    \A c \in Clients :
        (pc[c] \in {"close_lock", "close_wait"}) ~> (pc[c] = "closed")

\* Close has returned after a job's Submit was accepted and another job's
\* Submit timed out on the full queue
C25_Witness ==
    /\ \E c \in Clients : pc[c] = "closed"
    /\ closeCount = 1
    /\ submits >= 2
    /\ \E j \in Jobs : j > QueueFactor /\ job[j].ret = "true"
    /\ \E j \in Jobs : job[j].ret = "false" /\ ~job[j].late

\* C26: for a picture of at least one row on a host of at least one CPU, the
\* strips of CalculateBasicMetrics and of the parallel path of
\* CalculateBrightness are pairwise disjoint and lie inside the picture; no
\* row is ever read twice, and when the call returns every row has been read
\* exactly once and the pixels counted are width * height.
C26_StripsPartitionTheRows ==
    (mcall.fn \in StripFns /\ mcall.parallel /\ mcall.height >= 1) =>
        LET n == Len(mcall.strips)
            rowsOf(i) == StripOf(mcall.minY, mcall.height, n, i)
            picture == mcall.minY..(mcall.minY + mcall.height - 1)
        IN /\ \A i, j \in 0..(n - 1) :
                 i # j => rowsOf(i) \cap rowsOf(j) = {}
           /\ UNION {rowsOf(i) : i \in 0..(n - 1)} = picture
           /\ \A y \in DOMAIN mcall.visits :
                 mcall.visits[y] <= (IF y \in picture THEN 1 ELSE 0)
           /\ mcall.pc = "returned" =>
                 /\ \A y \in picture : mcall.visits[y] = 1
                 /\ mcall.pixelCount = mcall.width * mcall.height

\* the parallel path of CalculateBrightness has returned on a sub-image of
\* five rows on a host of four CPUs: two strips of two rows, one of one row
\* and an empty one
C26_Witness ==
    /\ mcall.fn = "CalculateBrightness"
    /\ mcall.parallel
    /\ mcall.pc = "returned"
    /\ mcall.height = 5
    /\ mcall.cpus = 4
    /\ mcall.minY = 1
    /\ Len(mcall.strips) = 4
    /\ StripOf(1, 5, 4, 3) = {}
    /\ mcall.pixelCount = 5 * ParallelPixels

\* C27 (as claimed): in the pool of internal/analyzer/worker_pool.go the
\* join counter is never negative, and a caller back from a Wait during
\* which no Submit was in flight finds every job whose Submit returned true
\* finished.
C27_LateAddKeepsTheJoinCounter ==
    /\ wg >= 0
    /\ fault # "negative WaitGroup counter"
    /\ \A c \in Clients :
          BackFromWait(c) => \A j \in Accepted : Finished(j)

\* C28 (as claimed): a submission that times out is never visible: in every
\* state GetStats reports as TotalJobs the accepted jobs and the submissions
\* still in their select, and a goroutine parked in Wait is waiting for an
\* accepted job or for a submission still in its select.
C28_TimedOutSubmitIsInvisible ==
    /\ GetStats.TotalJobs =
          Cardinality(Accepted)
              + Cardinality({c \in Clients : pc[c] = "submit_select"})
    /\ wgWaiters # {} =>
          \/ \E j \in Accepted : ~Finished(j)
          \/ \E w \in WorkerIds : wpc[w] = "signalling"
          \/ \E c \in Clients : pc[c] = "submit_select"

\* C29 (as claimed): in every state of a pool that is also resized GetStats
\* reports 0 <= ActiveWorkers <= Workers.
C29_ActiveWorkersWithinWorkers ==
    /\ 0 <= GetStats.ActiveWorkers
    /\ GetStats.ActiveWorkers <= GetStats.Workers

\* the messages of the low_resolution and the document_edges issue
LowResolutionMessage ==
    "Image is too small or unclear. Please take a clearer photo."

DocumentEdgesMessage ==
    "Full paper is not visible. Make sure all corners are inside the photo."

HasMessage(errors, message) ==
    \E i \in 1..Len(errors) : errors[i] = message

\* C30 (as claimed): a result returned under the OCR/quality profile carries
\* no low_resolution and no document_edges message when the enhanced checks
\* were skipped (FastMode), and no document_edges message when the
\* document-edge detection was skipped (SkipEdgeDetection).
C30_SkippedChecksRaiseNoIssue ==
    [][\A c \in Clients :
          (/\ acall[c].pc = "rules-evaluated"
           /\ acall'[c].pc = "idle"
           /\ acall[c].options.OCRMode \/ acall[c].options.QualityMode) =>
              LET errors == snap'[c][1].value.Errors IN
              /\ acall[c].options.FastMode =>
                    /\ ~HasMessage(errors, LowResolutionMessage)
                    /\ ~HasMessage(errors, DocumentEdgesMessage)
              /\ acall[c].options.SkipEdgeDetection =>
                    ~HasMessage(errors, DocumentEdgesMessage)]_vars

====
